---------------------------- MODULE CodecProofs ----------------------------
(***************************************************************************)
(* What an encoder of protocol.py writes its parser reads, for every base  *)
(* of the lengths, all texts, numbers, properties and lists that the       *)
(* formats can hold (IsPacket), and whatever comes before and after.       *)
(*                                                                         *)
(* The loops of the code are recursive functions.  What they compute is    *)
(* shown by induction over their steps, which the well-founded order of    *)
(* the naturals gives for sets of numbers (SetInduction).                  *)
(***************************************************************************)
EXTENDS PacketStream, SequenceTheorems, WellFoundedInduction, TLAPS

-----------------------------------------------------------------------------
(***************************************************************************)
(* Variable-length integers.  Induction over the naturals is stated for    *)
(* sets of them.                                                           *)
(***************************************************************************)
LEMMA OrderOfNat ==
    \E R : /\ IsWellFoundedOn(R, Nat)
           /\ \A n \in Nat : <<n, n + 1>> \in R
<1>1. \A n \in Nat : <<n, n + 1>> \in OpToRel(<, Nat)
    <2> TAKE n \in Nat
    <2>1. <<n, n + 1>> \in Nat \X Nat /\ n < n + 1
        OBVIOUS
    <2>2. <<n, n + 1>>[1] = n /\ <<n, n + 1>>[2] = n + 1
        OBVIOUS
    <2> QED
        BY <2>1, <2>2, Zenon DEF OpToRel
<1> QED
    BY <1>1, NatLessThanWellFounded, Zenon

LEMMA SetInduction ==
    ASSUME NEW T, 0 \in T, \A n \in Nat : n \in T => n + 1 \in T
    PROVE  Nat \subseteq T
<1> SUFFICES ASSUME Nat \ T # {} PROVE FALSE
    OBVIOUS
<1>1. PICK R : /\ IsWellFoundedOn(R, Nat)
               /\ \A n \in Nat : <<n, n + 1>> \in R
    BY OrderOfNat
<1>2. PICK n \in Nat \ T : \A m \in Nat \ T : <<m, n>> \notin R
    BY <1>1, WFMin
<1>3. n # 0 /\ n - 1 \in Nat /\ (n - 1) + 1 = n
    OBVIOUS
<1>4. n - 1 \in T
    BY <1>1, <1>2, <1>3
<1> QED
    BY <1>3, <1>4

\* A number is its last digit and the rest.
LEMMA Division ==
    ASSUME NEW n \in Nat
    PROVE  \E q \in Nat, r \in 0..(Base - 1) :
              /\ q = n \div Base /\ r = n % Base
              /\ n = Base * q + r
              /\ n >= Base => q < n
              /\ n < Base => r = n
              /\ (Base + r) % Base = r
<1>1. PICK q, r : q = n \div Base /\ r = n % Base
    OBVIOUS
<1>2. q \in Nat /\ r \in 0..(Base - 1)
    BY <1>1, BaseAssumption
<1>3. n = Base * q + r
    BY <1>1, <1>2, BaseAssumption, SMTT(30)
<1>4. n >= Base => q < n
    BY <1>1, BaseAssumption, SMTT(30)
<1>5. n < Base => r = n
    BY <1>1, BaseAssumption, SMTT(30)
<1>6. (Base + r) % Base = r
    BY <1>2, BaseAssumption, SMTT(30)
<1> QED
    BY <1>1, <1>2, <1>3, <1>4, <1>5, <1>6

\* One step of encode_varint.
Digits(g, n) == IF n < Base THEN <<n>> ELSE <<Base + (n % Base)>> \o g[n \div Base]

\* g is encode_varint up to k.
Encodes(g, k) == \A n \in 0..k : g[n] = Digits(g, n)

\* The recursion of encode_varint has a solution.
LEMMA EncodersExist ==
    ASSUME NEW k \in Nat
    PROVE  \E g : /\ g \in [0..k -> Seq(Nat)]
                  /\ \A n \in 0..k : g[n] = Digits(g, n)
<1> DEFINE Fits(g, j) == /\ g \in [0..j -> Seq(Nat)]
                         /\ \A n \in 0..j : g[n] = Digits(g, n)
           T == {j \in Nat : \E g : Fits(g, j)}
<1>1. 0 \in T
    <2>1. Fits([n \in 0..0 |-> <<n>>], 0)
        BY BaseAssumption DEF Digits
    <2> QED
        BY <2>1
<1>2. ASSUME NEW j \in Nat, j \in T PROVE j + 1 \in T
    <2>1. PICK g : Fits(g, j)
        BY <1>2
    <2> DEFINE h == [n \in 0..(j + 1) |-> IF n = j + 1 THEN Digits(g, j + 1) ELSE g[n]]
    <2>2. \A n \in 0..(j + 1) : n >= Base => n \div Base \in 0..j /\ n \div Base \in 0..(j + 1)
        BY Division
    <2>3. \A n \in 0..(j + 1) : n % Base \in Nat
        BY Division
    <2>4. Digits(g, j + 1) \in Seq(Nat)
        <3>1. CASE j + 1 < Base
            BY <3>1 DEF Digits
        <3>2. CASE ~(j + 1 < Base)
            <4>1. Base + ((j + 1) % Base) \in Nat /\ g[(j + 1) \div Base] \in Seq(Nat)
                <5>1. PICK i : i = j + 1
                    OBVIOUS
                <5>2. i \in 0..(j + 1) /\ i >= Base
                    BY <3>2, <5>1, BaseAssumption
                <5>3. i % Base \in Nat /\ i \div Base \in 0..j
                    BY <2>2, <2>3, <5>2
                <5>4. Base + (i % Base) \in Nat /\ g[i \div Base] \in Seq(Nat)
                    BY <2>1, <5>3, BaseAssumption
                <5> QED
                    BY <5>1, <5>4
            <4>2. <<Base + ((j + 1) % Base)>> \o g[(j + 1) \div Base] \in Seq(Nat)
                BY <4>1
            <4> QED
                BY <3>2, <4>2 DEF Digits
        <3> QED
            BY <3>1, <3>2
    <2>5. h \in [0..(j + 1) -> Seq(Nat)]
        BY <2>1, <2>4
    <2>6. ASSUME NEW n \in 0..(j + 1) PROVE h[n] = Digits(h, n)
        <3>1. n >= Base => h[n \div Base] = g[n \div Base]
            BY <2>2
        <3>2. Digits(h, n) = Digits(g, n)
            BY <3>1, BaseAssumption DEF Digits
        <3> QED
            BY <2>1, <3>2
    <2>7. Fits(h, j + 1)
        BY <2>5, <2>6
    <2> HIDE DEF Fits, h
    <2> QED
        BY <2>7
<1>3. k \in T
    <2> HIDE DEF T
    <2> QED
        BY <1>1, <1>2, SetInduction
<1> QED
    BY <1>3

\* ... and only one.
LEMMA EncodersAgree ==
    ASSUME NEW k \in Nat, NEW l \in Nat, NEW g, NEW h,
           Encodes(g, k), Encodes(h, l)
    PROVE  \A n \in Nat : n <= k /\ n <= l => g[n] = h[n]
<1> DEFINE T == {j \in Nat : \A n \in 0..j : n <= k /\ n <= l => g[n] = h[n]}
<1>1. 0 \in T
    <2>1. 0 < Base /\ 0 \in 0..k /\ 0 \in 0..l
        BY BaseAssumption
    <2>2. g[0] = <<0>> /\ h[0] = <<0>>
        BY <2>1 DEF Encodes, Digits
    <2> QED
        BY <2>2
<1>2. ASSUME NEW j \in Nat, j \in T PROVE j + 1 \in T
    <2> SUFFICES ASSUME j + 1 <= k, j + 1 <= l PROVE g[j + 1] = h[j + 1]
        BY <1>2
    <2>1. j + 1 >= Base => g[(j + 1) \div Base] = h[(j + 1) \div Base]
        <3>1. j + 1 >= Base => (j + 1) \div Base \in 0..j
            BY Division
        <3> QED
            BY <1>2, <3>1
    <2>2. Digits(g, j + 1) = Digits(h, j + 1)
        BY <2>1, BaseAssumption DEF Digits
    <2>3. j + 1 \in 0..k /\ j + 1 \in 0..l
        OBVIOUS
    <2> QED
        BY <2>2, <2>3 DEF Encodes
<1>3. Nat \subseteq T
    <2> HIDE DEF T
    <2> QED
        BY <1>1, <1>2, SetInduction
<1> QED
    BY <1>3

\* encode_varint takes its steps.
LEMMA Encoding ==
    \A n \in Nat : /\ EncodeVarint[n] \in Seq(Nat)
                   /\ EncodeVarint[n] = Digits(EncodeVarint, n)
<1> DEFINE Some(k) == CHOOSE g : /\ g \in [0..k -> Seq(Nat)]
                                 /\ \A n \in 0..k : g[n] = Digits(g, n)
           e == [n \in Nat |-> Some(n)[n]]
           Body(f) == [n \in Nat |-> IF n < Base THEN <<n>>
                                     ELSE <<Base + (n % Base)>> \o f[n \div Base]]
<1>1. ASSUME NEW k \in Nat
      PROVE  /\ Some(k) \in [0..k -> Seq(Nat)]
             /\ \A n \in 0..k : Some(k)[n] = Digits(Some(k), n)
    BY EncodersExist
<1> HIDE DEF Some
<1>2. e \in [Nat -> Seq(Nat)]
    BY <1>1
<1>3. ASSUME NEW n \in Nat PROVE e[n] = Digits(e, n)
    <2>1. e[n] = Digits(Some(n), n)
        BY <1>1
    <2>2. ASSUME n >= Base PROVE e[n \div Base] = Some(n)[n \div Base]
        <3>1. PICK m \in Nat : m = n \div Base /\ m <= n
            BY <2>2, Division
        <3>2. Some(m)[m] = Some(n)[m]
            <4>1. Encodes(Some(m), m) /\ Encodes(Some(n), n)
                BY <1>1, <3>1 DEF Encodes
            <4> QED
                BY <3>1, <4>1, EncodersAgree
        <3> QED
            BY <3>1, <3>2
    <2> HIDE DEF e
    <2> QED
        BY <2>1, <2>2, BaseAssumption DEF Digits
<1>4. e = Body(e)
    BY <1>2, <1>3 DEF Digits
<1>5. EncodeVarint = CHOOSE f : f = Body(f)
    BY DEF EncodeVarint
<1>6. EncodeVarint = Body(EncodeVarint)
    <2> HIDE DEF Body, e
    <2> QED
        BY <1>4, <1>5
<1>7. \A n \in Nat : EncodeVarint[n] = Digits(EncodeVarint, n)
    BY <1>6 DEF Digits
<1>8. ASSUME NEW n \in Nat PROVE EncodeVarint[n] = e[n]
    <2>1. Encodes(e, n)
        BY <1>3 DEF Encodes
    <2>2. Encodes(EncodeVarint, n)
        BY <1>7 DEF Encodes
    <2>3. n <= n
        OBVIOUS
    <2> HIDE DEF e, Body
    <2> QED
        BY <2>1, <2>2, <2>3, EncodersAgree
<1> QED
    BY <1>2, <1>7, <1>8

\* Every digit but the last one leaves a smaller number.
LEMMA LengthOfDigits ==
    ASSUME NEW n \in Nat
    PROVE  /\ Len(EncodeVarint[n]) \in Nat /\ Len(EncodeVarint[n]) >= 1
           /\ n < Base => Len(EncodeVarint[n]) = 1
           /\ n >= Base => /\ n \div Base \in Nat /\ n \div Base < n
                           /\ Len(EncodeVarint[n]) = 1 + Len(EncodeVarint[n \div Base])
<1>1. CASE n < Base
    <2>1. EncodeVarint[n] = <<n>>
        BY <1>1, Encoding DEF Digits
    <2> QED
        BY <1>1, <2>1, BaseAssumption
<1>2. CASE ~(n < Base)
    <2>1. PICK q \in Nat, r \in 0..(Base - 1) :
            q = n \div Base /\ r = n % Base /\ (n >= Base => q < n)
        BY Division
    <2>2. PICK x \in Nat : x = Base + r
        BY BaseAssumption
    <2>3. PICK e : e = EncodeVarint[q]
        OBVIOUS
    <2>4. EncodeVarint[n] = <<x>> \o e
        BY <1>2, <2>1, <2>2, <2>3, Encoding DEF Digits
    <2>5. e \in Seq(Nat)
        BY <2>3, Encoding
    <2>6. Len(EncodeVarint[n]) = 1 + Len(e) /\ Len(e) \in Nat
        BY <2>4, <2>5
    <2>7. n >= Base
        BY <1>2, BaseAssumption
    <2>8. Len(EncodeVarint[n]) >= 1
        BY <2>6
    <2> QED
        BY <1>2, <2>1, <2>3, <2>6, <2>7, <2>8
<1> QED
    BY <1>1, <1>2

\* Quotients keep the order.
LEMMA Monotone ==
    ASSUME NEW b \in Nat, NEW q \in Nat, NEW o \in Nat, NEW r \in 0..(b - 1), NEW t \in 0..(b - 1),
           b * q + r <= b * o + t
    PROVE  q <= o
<1> SUFFICES ASSUME q > o PROVE FALSE
    OBVIOUS
<1>1. PICK d \in Nat : q = o + 1 + d
    <2>1. q - o - 1 \in Nat /\ q = o + 1 + (q - o - 1)
        OBVIOUS
    <2> QED
        BY <2>1
<1>2. b * q = b * o + b + b * d
    BY <1>1, SMTT(30)
<1>3. b * d \in Nat /\ b * o \in Nat
    OBVIOUS
<1> QED
    BY <1>2, <1>3

\* Larger numbers have no fewer digits.
LEMMA Longer ==
    ASSUME NEW s \in Nat, NEW m \in Nat, m <= s
    PROVE  Len(EncodeVarint[m]) <= Len(EncodeVarint[s])
<1> DEFINE L(n) == Len(EncodeVarint[n])
           T == {j \in Nat : \A i \in 0..j : \A k \in 0..i : L(k) <= L(i)}
<1>1. \A n \in Nat : L(n) \in Nat /\ L(n) >= 1 /\ (n < Base => L(n) = 1)
    BY LengthOfDigits
<1>2. \A n \in Nat : n >= Base => n \div Base \in Nat /\ n \div Base < n
                                  /\ L(n) = 1 + L(n \div Base)
    BY LengthOfDigits
<1>3. ASSUME NEW i \in Nat, NEW k \in 0..i PROVE k \div Base <= i \div Base
    <2>1. k \in Nat
        OBVIOUS
    <2>2. PICK q \in Nat, r \in 0..(Base - 1) : q = k \div Base /\ k = Base * q + r
        BY <2>1, Division
    <2>3. PICK o \in Nat, t \in 0..(Base - 1) : o = i \div Base /\ i = Base * o + t
        BY Division
    <2>4. Base \in Nat
        BY BaseAssumption
    <2>5. Base * q + r <= Base * o + t
        BY <2>2, <2>3
    <2>6. q <= o
        BY <2>4, <2>5, Monotone
    <2> QED
        BY <2>2, <2>3, <2>6
<1> HIDE DEF L
<1>4. 0 \in T
    BY <1>1
<1>5. ASSUME NEW j \in Nat, j \in T PROVE j + 1 \in T
    <2> SUFFICES ASSUME NEW i \in 0..(j + 1), NEW k \in 0..i PROVE L(k) <= L(i)
        OBVIOUS
    <2>1. CASE k < Base
        BY <2>1, <1>1
    <2>2. CASE ~(k < Base)
        <3>1. k >= Base /\ i >= Base /\ k \in Nat /\ i \in Nat
            BY <2>2, BaseAssumption
        <3>2. PICK q \in Nat : q = k \div Base /\ L(k) = 1 + L(q)
            BY <3>1, <1>2
        <3>3. PICK o \in Nat : o = i \div Base /\ o < i /\ L(i) = 1 + L(o)
            BY <3>1, <1>2
        <3>4. q <= o
            BY <3>1, <3>2, <3>3, <1>3
        <3>5. o \in 0..j /\ q \in 0..o
            BY <3>3, <3>4
        <3>6. L(q) <= L(o)
            BY <1>5, <3>5
        <3> QED
            BY <3>2, <3>3, <3>6, <1>1
    <2> QED
        BY <2>1, <2>2
<1>6. Nat \subseteq T
    <2> HIDE DEF T
    <2> QED
        BY <1>4, <1>5, SetInduction
<1>7. s \in T /\ s \in 0..s /\ m \in 0..s
    <2> HIDE DEF T
    <2> QED
        BY <1>6
<1> QED
    BY <1>7 DEF L

\* The number of bytes after the header determines the size of the body.
LEMMA OneSize ==
    ASSUME NEW s \in Nat, NEW m \in Nat,
           Len(EncodeVarint[m]) + m = Len(EncodeVarint[s]) + s
    PROVE  m = s
<1>1. Len(EncodeVarint[m]) \in Nat /\ Len(EncodeVarint[s]) \in Nat
    BY LengthOfDigits
<1>2. CASE m < s
    <2>1. Len(EncodeVarint[m]) <= Len(EncodeVarint[s])
        BY <1>2, Longer
    <2> QED
        BY <1>1, <1>2, <2>1
<1>3. CASE s < m
    <2>1. Len(EncodeVarint[s]) <= Len(EncodeVarint[m])
        BY <1>3, Longer
    <2> QED
        BY <1>1, <1>3, <2>1
<1> QED
    BY <1>2, <1>3

-----------------------------------------------------------------------------
(***************************************************************************)
(* What an encoder writes its decoder reads.                               *)
(***************************************************************************)
\* The bytes stand in the data behind an offset.
Has(data, at, bytes) ==
    /\ data \in Seq(Nat) /\ bytes \in Seq(Nat) /\ at \in Nat
    /\ at + Len(bytes) <= Len(data)
    /\ \A i \in 1..Len(bytes) : data[at + i] = bytes[i]

LEMMA HasAll ==
    ASSUME NEW data \in Seq(Nat)
    PROVE  Has(data, 0, data)
BY DEF Has

LEMMA Joined ==
    ASSUME NEW a \in Seq(Nat), NEW b \in Seq(Nat)
    PROVE  /\ a \o b \in Seq(Nat)
           /\ Len(a) \in Nat /\ Len(b) \in Nat /\ Len(a \o b) = Len(a) + Len(b)
           /\ \A i \in 1..Len(a) : (a \o b)[i] = a[i]
           /\ \A i \in 1..Len(b) : (a \o b)[Len(a) + i] = b[i]
OBVIOUS

LEMMA HasParts ==
    ASSUME NEW data, NEW at, NEW a \in Seq(Nat), NEW b \in Seq(Nat), Has(data, at, a \o b)
    PROVE  Has(data, at, a) /\ Has(data, at + Len(a), b)
<1> DEFINE c == a \o b
<1>1. /\ Len(a) \in Nat /\ Len(b) \in Nat /\ Len(c) = Len(a) + Len(b)
      /\ \A i \in 1..Len(a) : c[i] = a[i]
      /\ \A i \in 1..Len(b) : c[Len(a) + i] = b[i]
    BY Joined
<1> HIDE DEF c
<1>2. /\ data \in Seq(Nat) /\ at \in Nat /\ Len(data) \in Nat
      /\ at + Len(c) <= Len(data)
      /\ \A i \in 1..Len(c) : data[at + i] = c[i]
    <2>1. data \in Seq(Nat) => Len(data) \in Nat
        OBVIOUS
    <2> QED
        BY <2>1 DEF Has, c
<1>3. \A i \in 1..Len(a) : data[at + i] = a[i]
    <2> TAKE i \in 1..Len(a)
    <2>1. i \in 1..Len(c)
        BY <1>1
    <2> QED
        BY <2>1, <1>1, <1>2
<1>4. \A i \in 1..Len(b) : data[(at + Len(a)) + i] = b[i]
    <2> TAKE i \in 1..Len(b)
    <2>1. Len(a) + i \in 1..Len(c) /\ (at + Len(a)) + i = at + (Len(a) + i)
        BY <1>1, <1>2
    <2>2. data[at + (Len(a) + i)] = c[Len(a) + i]
        BY <2>1, <1>2
    <2> QED
        BY <2>1, <2>2, <1>1
<1>5. at + Len(a) <= Len(data) /\ at + Len(a) \in Nat
      /\ (at + Len(a)) + Len(b) <= Len(data)
    BY <1>1, <1>2
<1> QED
    BY <1>2, <1>3, <1>4, <1>5 DEF Has

\* The radix of two bytes.
LEMMA Halves ==
    ASSUME NEW n \in Nat, NEW b \in Nat, b > 0
    PROVE  /\ n \div b \in Nat /\ n % b \in Nat /\ n % b < b
           /\ b * (n \div b) + (n % b) = n
<1>1. PICK q, r : q = n \div b /\ r = n % b
    OBVIOUS
<1>2. r \in Nat /\ r < b
    BY <1>1, SMTT(30)
<1>3. q \in Nat
    BY <1>1, SMTT(30)
<1>4. n = b * q + r
    BY <1>1, <1>2, <1>3, SMTT(30)
<1>5. b * q + r = n
    BY <1>4, Zenon
<1> QED
    BY <1>1, <1>2, <1>3, <1>5, Zenon

LEMMA RadixIsPositive == Radix \in Nat /\ Radix > 0 /\ Radix * Radix \in Nat /\ Radix * Radix > 0
<1>1. Radix \in Nat /\ Radix > 0
    BY BaseAssumption DEF Radix
<1>2. \A r \in Nat : r > 0 => r * r \in Nat /\ r * r > 0
    BY SMTT(30)
<1> QED
    BY <1>1, <1>2

LEMMA ByteRead ==
    ASSUME NEW n \in Nat, NEW data, NEW at, Has(data, at, <<n>>)
    PROVE  DecodeByte(data, at) = Got(n, at + 1)
BY DEF Has, DecodeByte

LEMMA WordBytes ==
    ASSUME NEW n \in Nat
    PROVE  Word(n) \in Seq(Nat) /\ Len(Word(n)) = 2
BY Halves, RadixIsPositive DEF Word

LEMMA WordRead ==
    ASSUME NEW n \in Nat, NEW data, NEW at, Has(data, at, Word(n))
    PROVE  DecodeWord(data, at) = Got(n, at + 2)
<1>1. PICK q, r : q = n \div Radix /\ r = n % Radix
    OBVIOUS
<1>2. q \in Nat /\ r \in Nat /\ Radix * q + r = n
    BY <1>1, Halves, RadixIsPositive
<1>3. Word(n) = <<q, r>>
    BY <1>1 DEF Word
<1>4. data[at + 1] = q /\ data[at + 2] = r /\ at + 2 <= Len(data)
    BY <1>2, <1>3 DEF Has
<1>5. ~(at + 2 > Len(data))
    <2>1. at \in Nat /\ Len(data) \in Nat
        BY DEF Has
    <2> QED
        BY <2>1, <1>4
<1> QED
    BY <1>2, <1>4, <1>5, Zenon DEF DecodeWord

LEMMA LongBytes ==
    ASSUME NEW n \in Nat
    PROVE  Long(n) \in Seq(Nat) /\ Len(Long(n)) = 4
<1>1. PICK q, r : q = n \div (Radix * Radix) /\ r = n % (Radix * Radix)
    OBVIOUS
<1>2. q \in Nat /\ r \in Nat
    BY <1>1, Halves, RadixIsPositive
<1>3. Word(q) \in Seq(Nat) /\ Word(r) \in Seq(Nat) /\ Len(Word(q)) = 2 /\ Len(Word(r)) = 2
    BY <1>2, WordBytes
<1>4. Long(n) = Word(q) \o Word(r)
    BY <1>1 DEF Long
<1>5. Word(q) \o Word(r) \in Seq(Nat) /\ Len(Word(q) \o Word(r)) = Len(Word(q)) + Len(Word(r))
    BY <1>3, Joined, Zenon
<1> QED
    BY <1>3, <1>4, <1>5

LEMMA LongRead ==
    ASSUME NEW n \in Nat, NEW data, NEW at, Has(data, at, Long(n))
    PROVE  DecodeLong(data, at) = Got(n, at + 4)
<1>1. PICK q, r : q = n \div (Radix * Radix) /\ r = n % (Radix * Radix)
    OBVIOUS
<1>2. q \in Nat /\ r \in Nat /\ (Radix * Radix) * q + r = n
    BY <1>1, Halves, RadixIsPositive
<1>3. Word(q) \in Seq(Nat) /\ Word(r) \in Seq(Nat) /\ Len(Word(q)) = 2
    BY <1>2, WordBytes
<1>4. Long(n) = Word(q) \o Word(r)
    BY <1>1 DEF Long
<1>5. Has(data, at, Word(q)) /\ Has(data, at + 2, Word(r))
    BY <1>3, <1>4, HasParts
<1>6. DecodeWord(data, at) = Got(q, at + 2) /\ DecodeWord(data, at + 2) = Got(r, (at + 2) + 2)
    BY <1>2, <1>5, WordRead
<1>7. (at + 2) + 2 = at + 4
    BY <1>5 DEF Has
<1>8. PICK w : w = Radix * Radix
    OBVIOUS
<1>9. DecodeLong(data, at) = Got(w * q + r, at + 4)
    BY <1>6, <1>7, <1>8 DEF DecodeLong, Then, Got
<1> QED
    BY <1>2, <1>8, <1>9, Zenon

LEMMA Piece ==
    ASSUME NEW s \in Seq(Nat), NEW m \in Nat, NEW n \in Nat, m + n <= Len(s)
    PROVE  /\ SubSeq(s, m + 1, m + n) \in Seq(Nat)
           /\ Len(SubSeq(s, m + 1, m + n)) = n
           /\ \A i \in 1..n : SubSeq(s, m + 1, m + n)[i] = s[m + i]
OBVIOUS

LEMMA SameSeq ==
    ASSUME NEW a \in Seq(Nat), NEW b \in Seq(Nat), Len(a) = Len(b),
           \A i \in 1..Len(b) : a[i] = b[i]
    PROVE  a = b
OBVIOUS

LEMMA HasCut ==
    ASSUME NEW data, NEW at, NEW bytes, Has(data, at, bytes)
    PROVE  SubSeq(data, at + 1, at + Len(bytes)) = bytes
<1>1. /\ data \in Seq(Nat) /\ bytes \in Seq(Nat) /\ at \in Nat
      /\ at + Len(bytes) <= Len(data)
      /\ \A i \in 1..Len(bytes) : data[at + i] = bytes[i]
    BY DEF Has
<1>2. PICK n \in Nat : n = Len(bytes)
    BY <1>1
<1>3. PICK c : c = SubSeq(data, at + 1, at + n)
    OBVIOUS
<1>4. c \in Seq(Nat) /\ Len(c) = n /\ \A i \in 1..n : c[i] = data[at + i]
    BY <1>1, <1>2, <1>3, Piece
<1>5. \A i \in 1..Len(bytes) : c[i] = bytes[i]
    BY <1>1, <1>2, <1>4
<1>6. c = bytes
    BY <1>1, <1>2, <1>4, <1>5, SameSeq
<1> QED
    BY <1>2, <1>3, <1>6

LEMMA TextBytes ==
    ASSUME NEW s \in Seq(Nat)
    PROVE  EncodeText(s) \in Seq(Nat) /\ Len(EncodeText(s)) = 2 + Len(s) /\ Len(s) \in Nat
<1>1. Len(s) \in Nat
    OBVIOUS
<1>2. Word(Len(s)) \in Seq(Nat) /\ Len(Word(Len(s))) = 2
    BY <1>1, WordBytes
<1>3. /\ Word(Len(s)) \o s \in Seq(Nat)
      /\ Len(Word(Len(s)) \o s) = Len(Word(Len(s))) + Len(s)
    BY <1>2, Joined
<1> QED
    BY <1>1, <1>2, <1>3 DEF EncodeText

LEMMA TextRead ==
    ASSUME NEW s \in Seq(Nat), NEW data, NEW at, Has(data, at, EncodeText(s))
    PROVE  DecodeText(data, at) = Got(s, at + Len(EncodeText(s)))
<1>1. PICK n \in Nat : n = Len(s)
    OBVIOUS
<1>2. Word(n) \in Seq(Nat) /\ Len(Word(n)) = 2 /\ EncodeText(s) = Word(n) \o s
    BY <1>1, WordBytes DEF EncodeText
<1>3. Has(data, at, Word(n)) /\ Has(data, at + 2, s)
    BY <1>2, HasParts
<1>4. DecodeWord(data, at) = Got(n, at + 2)
    BY <1>3, WordRead
<1>5. at \in Nat /\ (at + 2) + n <= Len(data) /\ Len(data) \in Nat
    <2>1. at \in Nat /\ data \in Seq(Nat)
        BY <1>3 DEF Has
    <2>2. (at + 2) + Len(s) <= Len(data)
        BY <1>3, Zenon DEF Has
    <2> QED
        BY <1>1, <2>1, <2>2
<1>6. ~((at + 2) + n > Len(data))
    BY <1>5
<1>7. SubSeq(data, (at + 2) + 1, (at + 2) + n) = s
    BY <1>1, <1>3, HasCut
<1>8. DecodeText(data, at) = Got(s, (at + 2) + n)
    <2>1. DecodeText(data, at)
            = IF (at + 2) + n > Len(data) THEN Bad
              ELSE Got(SubSeq(data, (at + 2) + 1, (at + 2) + n), (at + 2) + n)
        BY <1>4 DEF DecodeText, Then, Got
    <2> QED
        BY <2>1, <1>6, <1>7
<1>9. (at + 2) + n = at + Len(EncodeText(s))
    <2>1. Len(EncodeText(s)) = 2 + n
        BY <1>1, TextBytes
    <2> QED
        BY <1>5, <2>1
<1> QED
    BY <1>8, <1>9

LEMMA PairRead ==
    ASSUME NEW k \in Seq(Nat), NEW v \in Seq(Nat), NEW data, NEW at,
           Has(data, at, EncodeText(k) \o EncodeText(v))
    PROVE  DecodePair(data, at) = Got(<<k, v>>, at + Len(EncodeText(k) \o EncodeText(v)))
<1>1. PICK a, b : a = EncodeText(k) /\ b = EncodeText(v)
    OBVIOUS
<1>2. a \in Seq(Nat) /\ b \in Seq(Nat)
    BY <1>1, TextBytes
<1>3. Has(data, at, a) /\ Has(data, at + Len(a), b)
    BY <1>1, <1>2, HasParts
<1>4. /\ DecodeText(data, at) = Got(k, at + Len(a))
      /\ DecodeText(data, at + Len(a)) = Got(v, (at + Len(a)) + Len(b))
    BY <1>1, <1>3, TextRead
<1>5. (at + Len(a)) + Len(b) = at + Len(a \o b)
    <2>1. at \in Nat
        BY <1>3 DEF Has
    <2> QED
        BY <2>1, <1>2, Joined
<1>6. DecodePair(data, at) = Got(<<k, v>>, at + Len(a \o b))
    BY <1>4, <1>5 DEF DecodePair, Then, Got
<1> QED
    BY <1>1, <1>6

LEMMA Least ==
    ASSUME NEW S, NEW x \in S, S \subseteq Int, \A y \in S : x <= y
    PROVE  Min(S) = x
<1> DEFINE P(z) == z \in S /\ \A y \in S : z <= y
<1>1. P(x)
    OBVIOUS
<1>2. \A z : P(z) => z = x
    OBVIOUS
<1>3. Min(S) = CHOOSE z \in S : \A y \in S : z <= y
    BY DEF Min
<1> QED
    BY <1>1, <1>2, <1>3

\* The first digit, or all there is.
LEMMA FirstDigit ==
    ASSUME NEW n \in Nat, NEW data, NEW at, Has(data, at, EncodeVarint[n])
    PROVE  /\ data[at + 1] \in Nat /\ at + 1 <= Len(data)
           /\ \/ n < Base /\ data[at + 1] = n /\ n % Base = n /\ Len(EncodeVarint[n]) = 1
              \/ \E q \in Nat :
                    /\ Len(EncodeVarint[n]) = 1 + Len(EncodeVarint[q])
                    /\ Has(data, at + 1, EncodeVarint[q])
                    /\ data[at + 1] >= Base
                    /\ n = (data[at + 1] % Base) + Base * q
<1>1. PICK q \in Nat, r \in 0..(Base - 1) :
              /\ q = n \div Base /\ r = n % Base
              /\ n = Base * q + r
              /\ n < Base => r = n
              /\ (Base + r) % Base = r
    BY Division
<1>2. at \in Nat /\ data \in Seq(Nat) /\ Base \in Nat
    BY BaseAssumption DEF Has
<1>3. CASE n < Base
    <2>1. EncodeVarint[n] = <<n>>
        BY <1>3, Encoding DEF Digits
    <2>2. at + 1 <= Len(data) /\ data[at + 1] = n
        BY <2>1, <1>2 DEF Has
    <2>3. Len(EncodeVarint[n]) = 1
        BY <2>1
    <2> QED
        BY <1>1, <1>3, <2>2, <2>3
<1>4. CASE ~(n < Base)
    <2>1. PICK x \in Nat : x = Base + r
        BY <1>2
    <2>2. PICK e : e = EncodeVarint[q]
        OBVIOUS
    <2>3. EncodeVarint[n] = <<x>> \o e
        BY <1>1, <1>4, <2>1, <2>2, Encoding DEF Digits
    <2>4. e \in Seq(Nat) /\ <<x>> \in Seq(Nat) /\ Len(<<x>>) = 1 /\ <<x>>[1] = x
        BY <2>2, Encoding
    <2>5. Has(data, at, <<x>>) /\ Has(data, at + 1, e)
        BY <2>3, <2>4, HasParts
    <2>6. at + 1 <= Len(data) /\ data[at + 1] = x
        BY <2>4, <2>5 DEF Has
    <2>7. Len(EncodeVarint[n]) = 1 + Len(e)
        BY <2>3, <2>4
    <2>8. x % Base = r /\ x >= Base /\ n = r + Base * q
        <3>1. x % Base = r
            BY <1>1, <2>1
        <3>2. x >= Base
            BY <1>2, <2>1
        <3>3. PICK p \in Nat : p = Base * q
            BY <1>2, SMTT(30)
        <3>4. n = p + r
            BY <1>1, <3>3, Zenon
        <3>5. n = r + p
            BY <3>3, <3>4
        <3> QED
            BY <3>1, <3>2, <3>3, <3>5
    <2>9. n = (data[at + 1] % Base) + Base * q
        BY <2>6, <2>8
    <2> QED
        BY <2>2, <2>5, <2>6, <2>7, <2>8, <2>9
<1> QED
    BY <1>3, <1>4

\* A digit, as long as there are any.
Digit(data, at, m, k) == IF k <= m THEN data[at + k] % Base ELSE 0

\* The digits end with the first one that is not marked.
LEMMA LastDigit ==
    ASSUME NEW data \in Seq(Nat), NEW at \in Nat, NEW m \in 1..4,
           at + m <= Len(data), data[at + m] < Base,
           \A k \in 1..(m - 1) : ~(data[at + k] < Base)
    PROVE  DecodeVarint(data, at) =
             Got(Digit(data, at, m, 1) + Base * (Digit(data, at, m, 2)
                   + Base * (Digit(data, at, m, 3) + Base * Digit(data, at, m, 4))),
                 at + m)
<1> DEFINE ends == {k \in 1..4 : at + k <= Len(data) /\ data[at + k] < Base}
<1>1. m \in ends
    OBVIOUS
<1>2. \A k \in ends : m <= k
    <2> TAKE k \in ends
    <2>1. k \in 1..4 /\ data[at + k] < Base
        OBVIOUS
    <2> SUFFICES ASSUME k < m PROVE FALSE
        BY <2>1
    <2>2. k \in 1..(m - 1)
        BY <2>1
    <2> QED
        BY <2>1, <2>2
<1>3. ends \subseteq Int
    OBVIOUS
<1>4. Min(ends) = m /\ ends # {}
    <2> HIDE DEF ends
    <2> QED
        BY <1>1, <1>2, <1>3, Least
<1> QED
    BY <1>4 DEF DecodeVarint, Digit

LEMMA Ends2 ==
    ASSUME NEW data \in Seq(Nat), NEW at \in Nat, at + 2 <= Len(data), data[at + 2] < Base,
           ~(data[at + 1] < Base)
    PROVE  DecodeVarint(data, at)
             = Got((data[at + 1] % Base) + Base * ((data[at + 2] % Base)
                     + Base * (0 + Base * 0)), at + 2)
<1>1. \A k \in 1..(2 - 1) : ~(data[at + k] < Base)
    <2> TAKE k \in 1..(2 - 1)
    <2>1. k = 1
        OBVIOUS
    <2> QED
        BY <2>1
<1>2. 2 \in 1..4
    OBVIOUS
<1>3. DecodeVarint(data, at)
        = Got(Digit(data, at, 2, 1) + Base * (Digit(data, at, 2, 2)
                + Base * (Digit(data, at, 2, 3) + Base * Digit(data, at, 2, 4))), at + 2)
    BY <1>1, <1>2, LastDigit
<1>4. /\ Digit(data, at, 2, 1) = (data[at + 1] % Base) /\ Digit(data, at, 2, 2) = (data[at + 2] % Base)
      /\ Digit(data, at, 2, 3) = 0 /\ Digit(data, at, 2, 4) = 0
    BY DEF Digit
<1> QED
    BY <1>3, <1>4, Zenon

LEMMA Ends3 ==
    ASSUME NEW data \in Seq(Nat), NEW at \in Nat, at + 3 <= Len(data), data[at + 3] < Base,
           ~(data[at + 1] < Base), ~(data[at + 2] < Base)
    PROVE  DecodeVarint(data, at)
             = Got((data[at + 1] % Base) + Base * ((data[at + 2] % Base)
                     + Base * ((data[at + 3] % Base) + Base * 0)), at + 3)
<1>1. \A k \in 1..(3 - 1) : ~(data[at + k] < Base)
    <2> TAKE k \in 1..(3 - 1)
    <2>1. k = 1 \/ k = 2
        OBVIOUS
    <2> QED
        BY <2>1
<1>2. 3 \in 1..4
    OBVIOUS
<1>3. DecodeVarint(data, at)
        = Got(Digit(data, at, 3, 1) + Base * (Digit(data, at, 3, 2)
                + Base * (Digit(data, at, 3, 3) + Base * Digit(data, at, 3, 4))), at + 3)
    BY <1>1, <1>2, LastDigit
<1>4. /\ Digit(data, at, 3, 1) = (data[at + 1] % Base) /\ Digit(data, at, 3, 2) = (data[at + 2] % Base)
      /\ Digit(data, at, 3, 3) = (data[at + 3] % Base) /\ Digit(data, at, 3, 4) = 0
    BY DEF Digit
<1> QED
    BY <1>3, <1>4, Zenon

LEMMA Ends4 ==
    ASSUME NEW data \in Seq(Nat), NEW at \in Nat, at + 4 <= Len(data), data[at + 4] < Base,
           ~(data[at + 1] < Base), ~(data[at + 2] < Base), ~(data[at + 3] < Base)
    PROVE  DecodeVarint(data, at)
             = Got((data[at + 1] % Base) + Base * ((data[at + 2] % Base)
                     + Base * ((data[at + 3] % Base) + Base * (data[at + 4] % Base))), at + 4)
<1>1. \A k \in 1..(4 - 1) : ~(data[at + k] < Base)
    <2> TAKE k \in 1..(4 - 1)
    <2>1. k = 1 \/ k = 2 \/ k = 3
        OBVIOUS
    <2> QED
        BY <2>1
<1>2. 4 \in 1..4
    OBVIOUS
<1>3. DecodeVarint(data, at)
        = Got(Digit(data, at, 4, 1) + Base * (Digit(data, at, 4, 2)
                + Base * (Digit(data, at, 4, 3) + Base * Digit(data, at, 4, 4))), at + 4)
    BY <1>1, <1>2, LastDigit
<1>4. /\ Digit(data, at, 4, 1) = (data[at + 1] % Base) /\ Digit(data, at, 4, 2) = (data[at + 2] % Base)
      /\ Digit(data, at, 4, 3) = (data[at + 3] % Base) /\ Digit(data, at, 4, 4) = (data[at + 4] % Base)
    BY DEF Digit
<1> QED
    BY <1>3, <1>4, Zenon

LEMMA VarintRead ==
    ASSUME NEW n \in Nat, Len(EncodeVarint[n]) <= 4,
           NEW data, NEW at, Has(data, at, EncodeVarint[n])
    PROVE  DecodeVarint(data, at) = Got(n, at + Len(EncodeVarint[n]))
<1> DEFINE L(q) == Len(EncodeVarint[q])
           LastOne(q, k) == q < Base /\ data[at + k] = q /\ q % Base = q /\ L(q) = 1
           Marked(q, k, p) == /\ L(q) = 1 + L(p)
                              /\ Has(data, at + k, EncodeVarint[p])
                              /\ data[at + k] >= Base
                              /\ q = (data[at + k] % Base) + Base * p
<1>1. at \in Nat /\ data \in Seq(Nat) /\ Base \in Nat /\ Len(data) \in Nat
    BY BaseAssumption DEF Has
<1>2. \A q \in Nat : L(q) \in Nat /\ L(q) >= 1
    BY LengthOfDigits
<1>3. L(n) <= 4
    OBVIOUS
<1>4. ASSUME NEW q \in Nat, NEW j \in 0..3, NEW k \in 1..4, k = j + 1,
             Has(data, at + j, EncodeVarint[q])
      PROVE  /\ data[at + k] \in Nat /\ at + k <= Len(data)
             /\ LastOne(q, k) \/ \E p \in Nat : Marked(q, k, p)
    <2>1. PICK o : o = at + j
        OBVIOUS
    <2>2. o + 1 = at + k
        BY <2>1, <1>1, <1>4
    <2>3. Has(data, o, EncodeVarint[q])
        BY <1>4, <2>1
    <2>4. /\ data[o + 1] \in Nat /\ o + 1 <= Len(data)
          /\ \/ q < Base /\ data[o + 1] = q /\ q % Base = q /\ Len(EncodeVarint[q]) = 1
             \/ \E p \in Nat :
                    /\ Len(EncodeVarint[q]) = 1 + Len(EncodeVarint[p])
                    /\ Has(data, o + 1, EncodeVarint[p])
                    /\ data[o + 1] >= Base
                    /\ q = (data[o + 1] % Base) + Base * p
        BY <2>3, FirstDigit
    <2> QED
        BY <2>2, <2>4, Zenon
<1>5. Has(data, at + 0, EncodeVarint[n])
    BY <1>1
<1>6. /\ data[at + 1] \in Nat /\ at + 1 <= Len(data)
      /\ LastOne(n, 1) \/ \E p \in Nat : Marked(n, 1, p)
    BY <1>4, <1>5
<1>7. CASE LastOne(n, 1)
    <2>1. DecodeVarint(data, at)
            = Got((data[at + 1] % Base) + Base * (0 + Base * (0 + Base * 0)), at + 1)
        BY <1>1, <1>6, <1>7, LastDigit DEF Digit
    <2>2. n + Base * (0 + Base * (0 + Base * 0)) = n
        BY <1>1
    <2> QED
        BY <1>7, <2>1, <2>2
<1>8. ASSUME NEW q1 \in Nat, Marked(n, 1, q1)
      PROVE  DecodeVarint(data, at) = Got(n, at + L(n))
    <2>1. /\ data[at + 2] \in Nat /\ at + 2 <= Len(data)
          /\ LastOne(q1, 2) \/ \E p \in Nat : Marked(q1, 2, p)
        <3>1. 2 \in 1..4 /\ 1 \in 0..3 /\ 2 = 1 + 1
            OBVIOUS
        <3>2. Has(data, at + 1, EncodeVarint[q1])
            BY <1>8
        <3> HIDE DEF LastOne, Marked
        <3> QED
            BY <1>4, <3>1, <3>2, Zenon
    <2>2. ~(data[at + 1] < Base)
        BY <1>1, <1>6, <1>8
    <2>3. CASE LastOne(q1, 2)
        <3>1. DecodeVarint(data, at)
                = Got((data[at + 1] % Base) + Base * ((data[at + 2] % Base)
                         + Base * (0 + Base * 0)), at + 2)
            BY <1>1, <2>1, <2>2, <2>3, Ends2
        <3>2. q1 + Base * (0 + Base * 0) = q1
            BY <1>1
        <3>3. at + L(n) = at + 2
            BY <1>8, <2>3
        <3> QED
            BY <1>8, <2>3, <3>1, <3>2, <3>3, Zenon
    <2>4. ASSUME NEW q2 \in Nat, Marked(q1, 2, q2)
          PROVE  DecodeVarint(data, at) = Got(n, at + L(n))
        <3>1. /\ data[at + 3] \in Nat /\ at + 3 <= Len(data)
              /\ LastOne(q2, 3) \/ \E p \in Nat : Marked(q2, 3, p)
            <4>1. 3 \in 1..4 /\ 2 \in 0..3 /\ 3 = 2 + 1
                OBVIOUS
            <4>2. Has(data, at + 2, EncodeVarint[q2])
                BY <2>4
            <4> HIDE DEF LastOne, Marked
            <4> QED
                BY <1>4, <4>1, <4>2, Zenon
        <3>2. ~(data[at + 2] < Base)
            BY <1>1, <2>1, <2>4
        <3>3. CASE LastOne(q2, 3)
            <4>1. DecodeVarint(data, at)
                    = Got((data[at + 1] % Base) + Base * ((data[at + 2] % Base)
                             + Base * ((data[at + 3] % Base) + Base * 0)), at + 3)
                BY <1>1, <2>2, <3>1, <3>2, <3>3, Ends3
            <4>2. q2 + Base * 0 = q2
                BY <1>1
            <4>3. at + L(n) = at + 3
                BY <1>8, <2>4, <3>3
            <4> QED
                BY <1>8, <2>4, <3>3, <4>1, <4>2, <4>3, Zenon
        <3>4. ASSUME NEW q3 \in Nat, Marked(q2, 3, q3)
              PROVE  DecodeVarint(data, at) = Got(n, at + L(n))
            <4>1. /\ data[at + 4] \in Nat /\ at + 4 <= Len(data)
                  /\ LastOne(q3, 4) \/ \E p \in Nat : Marked(q3, 4, p)
                <5>1. 4 \in 1..4 /\ 3 \in 0..3 /\ 4 = 3 + 1
                    OBVIOUS
                <5>2. Has(data, at + 3, EncodeVarint[q3])
                    BY <3>4
                <5> HIDE DEF LastOne, Marked
                <5> QED
                    BY <1>4, <5>1, <5>2, Zenon
            <4>2. ~(data[at + 3] < Base)
                BY <1>1, <3>1, <3>4
            <4>3. L(n) = 1 + L(q1) /\ L(q1) = 1 + L(q2) /\ L(q2) = 1 + L(q3)
                BY <1>8, <2>4, <3>4
            <4>4. L(q3) \in Nat /\ L(q3) >= 1
                BY <1>2
            <4>5. L(q3) = 1
                <5> HIDE DEF L
                <5> QED
                    BY <1>3, <4>3, <4>4
            <4>6. LastOne(q3, 4)
                <5>1. ASSUME NEW p \in Nat, Marked(q3, 4, p) PROVE FALSE
                    <6>1. L(q3) = 1 + L(p)
                        BY <5>1
                    <6>2. L(p) \in Nat /\ L(p) >= 1
                        BY <1>2
                    <6> HIDE DEF L
                    <6> QED
                        BY <4>5, <6>1, <6>2
                <5> QED
                    BY <4>1, <5>1
            <4>7. DecodeVarint(data, at)
                    = Got((data[at + 1] % Base) + Base * ((data[at + 2] % Base)
                             + Base * ((data[at + 3] % Base) + Base * (data[at + 4] % Base))),
                          at + 4)
                BY <1>1, <2>2, <3>2, <4>1, <4>2, <4>6, Ends4
            <4>8. at + L(n) = at + 4
                <5> HIDE DEF L
                <5> QED
                    BY <4>3, <4>5
            <4> QED
                BY <1>8, <2>4, <3>4, <4>6, <4>7, <4>8, Zenon
        <3> QED
            BY <3>1, <3>3, <3>4
    <2> QED
        BY <2>1, <2>3, <2>4
<1> QED
    BY <1>6, <1>7, <1>8

\* What FlattenSeq has put together after each part.
Sums(S, f, b) ==
    /\ b \in Seq(Seq(S))
    /\ f \in [0..Len(b) -> Seq(S)]
    /\ f[0] = <<>>
    /\ \A i \in 1..Len(b) : f[i] = f[i - 1] \o b[i]

LEMMA ConcatTypes ==
    ASSUME NEW S, NEW a \in Seq(S), NEW b \in Seq(S)
    PROVE  /\ a \o b \in Seq(S)
           /\ Len(a) \in Nat /\ Len(b) \in Nat /\ Len(a \o b) = Len(a) + Len(b)
           /\ \A i \in 1..Len(a) : (a \o b)[i] = a[i]
           /\ \A i \in 1..Len(b) : (a \o b)[Len(a) + i] = b[i]
           /\ <<>> \o b = b
OBVIOUS

LEMMA SumsExist ==
    ASSUME NEW S, NEW b \in Seq(Seq(S))
    PROVE  \E f : Sums(S, f, b)
<1> DEFINE n == Len(b)
           Fits(f, j) == /\ f \in [0..j -> Seq(S)]
                         /\ f[0] = <<>>
                         /\ \A i \in 1..j : f[i] = f[i - 1] \o b[i]
           T == {j \in Nat : j <= n => \E f : Fits(f, j)}
<1>1. 0 \in T
    <2>1. Fits([i \in 0..0 |-> <<>>], 0)
        OBVIOUS
    <2> QED
        BY <2>1
<1> HIDE DEF Fits
<1>2. ASSUME NEW j \in Nat, j \in T PROVE j + 1 \in T
    <2> SUFFICES ASSUME j + 1 <= n PROVE \E f : Fits(f, j + 1)
        OBVIOUS
    <2>1. n \in Nat
        OBVIOUS
    <2>2. PICK f : Fits(f, j)
        BY <1>2, <2>1
    <2> USE DEF Fits
    <2>3. b[j + 1] \in Seq(S) /\ f[j] \in Seq(S)
        BY <2>1, <2>2
    <2>4. f[j] \o b[j + 1] \in Seq(S)
        BY <2>3
    <2> DEFINE g == [i \in 0..(j + 1) |-> IF i = j + 1 THEN f[j] \o b[j + 1] ELSE f[i]]
    <2>5. g \in [0..(j + 1) -> Seq(S)] /\ g[0] = <<>>
        BY <2>2, <2>4
    <2>6. ASSUME NEW i \in 1..(j + 1) PROVE g[i] = g[i - 1] \o b[i]
        <3>1. CASE i = j + 1
            <4>1. i - 1 = j /\ j # j + 1 /\ j \in 0..(j + 1) /\ j + 1 \in 0..(j + 1)
                BY <3>1
            <4>2. g[j + 1] = f[j] \o b[j + 1] /\ g[j] = f[j]
                BY <4>1
            <4> HIDE DEF g
            <4> QED
                BY <3>1, <4>1, <4>2
        <3>2. CASE i # j + 1
            <4>1. i \in 1..j /\ i \in 0..(j + 1) /\ i - 1 \in 0..(j + 1) /\ i - 1 # j + 1
                BY <3>2
            <4>2. g[i] = f[i] /\ g[i - 1] = f[i - 1]
                BY <3>2, <4>1
            <4>3. f[i] = f[i - 1] \o b[i]
                BY <2>2, <4>1
            <4> HIDE DEF g
            <4> QED
                BY <4>2, <4>3
        <3> QED
            BY <3>1, <3>2
    <2>7. Fits(g, j + 1)
        BY <2>5, <2>6
    <2> HIDE DEF Fits, g
    <2> QED
        BY <2>7
<1>3. n \in Nat
    OBVIOUS
<1>4. n \in T
    <2> HIDE DEF T, n
    <2> QED
        BY <1>1, <1>2, <1>3, SetInduction
<1>5. PICK f : Fits(f, n)
    BY <1>3, <1>4
<1> QED
    BY <1>5 DEF Sums, Fits

LEMMA SumsAgree ==
    ASSUME NEW S, NEW f, NEW b, Sums(S, f, b), NEW g, NEW c, Sums(S, g, c),
           NEW n \in Nat, n <= Len(b), n <= Len(c), \A i \in 1..n : b[i] = c[i]
    PROVE  f[n] = g[n]
<1> DEFINE T == {j \in Nat : j <= n => f[j] = g[j]}
<1>1. 0 \in T
    BY DEF Sums
<1>2. ASSUME NEW j \in Nat, j \in T PROVE j + 1 \in T
    <2> SUFFICES ASSUME j + 1 <= n PROVE f[j + 1] = g[j + 1]
        OBVIOUS
    <2>1. Len(b) \in Nat /\ Len(c) \in Nat
        BY DEF Sums
    <2>2. j + 1 \in 1..Len(b) /\ j + 1 \in 1..Len(c) /\ (j + 1) - 1 = j /\ j + 1 \in 1..n
        BY <2>1
    <2>3. f[j + 1] = f[j] \o b[j + 1] /\ g[j + 1] = g[j] \o c[j + 1]
        BY <2>2 DEF Sums
    <2>4. f[j] = g[j] /\ b[j + 1] = c[j + 1]
        BY <1>2, <2>2
    <2> QED
        BY <2>3, <2>4
<1>3. n \in T
    <2> HIDE DEF T
    <2> QED
        BY <1>1, <1>2, SetInduction
<1> QED
    BY <1>3

LEMMA FlattenIsSum ==
    ASSUME NEW S, NEW f, NEW b, Sums(S, f, b)
    PROVE  FlattenSeq(b) = f[Len(b)] /\ FlattenSeq(b) \in Seq(S)
<1>1. Len(b) \in Nat /\ b \in Seq(Seq(S)) /\ f \in [0..Len(b) -> Seq(S)]
    BY DEF Sums
<1>2. f[Len(b)] \in Seq(S)
    BY <1>1
<1>3. CASE Len(b) = 0
    <2>1. FlattenSeq(b) = b /\ b = <<>>
        BY <1>1, <1>3 DEF FlattenSeq
    <2>2. f[Len(b)] = <<>>
        BY <1>3 DEF Sums
    <2> QED
        BY <1>2, <2>1, <2>2
<1>4. CASE Len(b) # 0
    <2> DEFINE n == Len(b)
               Body(g) == [i \in 1..n |-> IF i = 1 THEN b[i] ELSE g[i - 1] \o b[i]]
               h == [i \in 1..n |-> f[i]]
               flatten == CHOOSE g : g = Body(g)
    <2>1. FlattenSeq(b) = flatten[n]
        BY <1>4, Zenon DEF FlattenSeq
    <2>2. ASSUME NEW i \in 1..n
          PROVE  h[i] = IF i = 1 THEN b[i] ELSE h[i - 1] \o b[i]
        <3>1. f[i] = f[i - 1] \o b[i] /\ f[0] = <<>>
            BY Zenon DEF Sums
        <3>4. b[i] \in Seq(S)
            BY <1>1
        <3>2. CASE i = 1
            <4>3. i - 1 = 0
                BY <3>2
            <4>1. f[1] = <<>> \o b[1]
                BY <3>1, <3>2, <4>3, Zenon
            <4>2. <<>> \o b[1] = b[1]
                BY <3>4, <3>2, ConcatTypes
            <4> QED
                BY <3>2, <4>1, <4>2
        <3>3. CASE i # 1
            <4>1. i - 1 \in 1..n
                BY <1>1, <3>3
            <4>2. h[i - 1] = f[i - 1] /\ h[i] = f[i]
                BY <4>1
            <4> HIDE DEF h
            <4> QED
                BY <3>1, <3>3, <4>2
        <3> QED
            BY <3>2, <3>3
    <2>3. h = Body(h)
        BY <2>2
    <2>4. flatten = Body(flatten)
        <3> HIDE DEF Body, h
        <3> QED
            BY <2>3
    <2> HIDE DEF flatten, h
    <2>5. \A i \in 1..n : flatten[i] = IF i = 1 THEN b[i] ELSE flatten[i - 1] \o b[i]
        BY <2>4
    <2> HIDE DEF Body
    <2> DEFINE T == {j \in Nat : j + 1 <= n => flatten[j + 1] = f[j + 1]}
    <2>6. 0 \in T
        <3>1. 1 \in 1..n
            BY <1>1, <1>4
        <3>2. flatten[1] = b[1]
            BY <2>5, <3>1
        <3>3. f[1] = b[1]
            <4>1. h[1] = b[1]
                BY <2>2, <3>1
            <4> QED
                BY <3>1, <4>1 DEF h
        <3>4. 0 + 1 = 1
            OBVIOUS
        <3> QED
            BY <3>2, <3>3, <3>4
    <2>7. ASSUME NEW j \in Nat, j \in T PROVE j + 1 \in T
        <3> SUFFICES ASSUME (j + 1) + 1 <= n PROVE flatten[(j + 1) + 1] = f[(j + 1) + 1]
            OBVIOUS
        <3>1. PICK i : i = (j + 1) + 1
            OBVIOUS
        <3>2. i \in 1..n /\ i # 1 /\ i - 1 = j + 1
            BY <1>1, <3>1
        <3>3. flatten[i] = flatten[i - 1] \o b[i]
            BY <2>5, <3>2
        <3>4. f[i] = f[i - 1] \o b[i]
            BY <3>2 DEF Sums
        <3>5. flatten[i - 1] = f[i - 1]
            BY <1>1, <2>7, <3>2
        <3> QED
            BY <3>1, <3>3, <3>4, <3>5
    <2>8. Nat \subseteq T
        <3> HIDE DEF T, n
        <3> QED
            BY <2>6, <2>7, SetInduction
    <2>9. flatten[n] = f[n]
        <3>1. n - 1 \in Nat /\ (n - 1) + 1 = n
            BY <1>1, <1>4
        <3>2. n - 1 \in T
            BY <2>8, <3>1
        <3> QED
            BY <3>1, <3>2
    <2> QED
        BY <1>2, <2>1, <2>9
<1> QED
    BY <1>3, <1>4

LEMMA FlattenEmpty == FlattenSeq(<<>>) = <<>>
BY DEF FlattenSeq

\* One part more.
LEMMA FlattenAppend ==
    ASSUME NEW S, NEW b \in Seq(Seq(S)), NEW x \in Seq(S)
    PROVE  /\ FlattenSeq(Append(b, x)) = FlattenSeq(b) \o x
           /\ FlattenSeq(b) \in Seq(S) /\ FlattenSeq(Append(b, x)) \in Seq(S)
<1> DEFINE c == Append(b, x)
<1>1. /\ c \in Seq(Seq(S)) /\ Len(b) \in Nat /\ Len(c) = Len(b) + 1
      /\ c[Len(b) + 1] = x
      /\ \A i \in 1..Len(b) : c[i] = b[i]
    OBVIOUS
<1> HIDE DEF c
<1>2. PICK f : Sums(S, f, b)
    BY SumsExist
<1>3. PICK g : Sums(S, g, c)
    BY <1>1, SumsExist
<1>4. f[Len(b)] = g[Len(b)]
    <2>1. Len(b) \in Nat /\ Len(b) <= Len(b) /\ Len(b) <= Len(c)
        BY <1>1
    <2>2. \A i \in 1..Len(b) : b[i] = c[i]
        BY <1>1
    <2> QED
        BY <1>2, <1>3, <2>1, <2>2, SumsAgree
<1>5. g[Len(c)] = g[Len(b)] \o x
    <2>1. Len(c) \in 1..Len(c) /\ Len(c) - 1 = Len(b)
        BY <1>1
    <2>2. g[Len(c)] = g[Len(c) - 1] \o c[Len(c)]
        BY <1>3, <2>1 DEF Sums
    <2> QED
        BY <1>1, <2>1, <2>2
<1>6. FlattenSeq(b) = f[Len(b)] /\ FlattenSeq(b) \in Seq(S)
    BY <1>2, FlattenIsSum
<1>7. FlattenSeq(c) = g[Len(c)] /\ FlattenSeq(c) \in Seq(S)
    BY <1>3, FlattenIsSum
<1> QED
    BY <1>4, <1>5, <1>6, <1>7 DEF c

\* Where the parts lie in the whole.
Places(off, b) ==
    /\ off \in [0..Len(b) -> Nat]
    /\ off[0] = 0 /\ off[Len(b)] = Len(FlattenSeq(b))
    /\ \A j \in 1..Len(b) : off[j] = off[j - 1] + Len(b[j])

LEMMA SumStep ==
    ASSUME NEW f, NEW b, Sums(Nat, f, b), NEW i \in 1..Len(b)
    PROVE  /\ f[i] = f[i - 1] \o b[i]
           /\ b[i] \in Seq(Nat) /\ f[i - 1] \in Seq(Nat)
           /\ Len(f[i]) = Len(f[i - 1]) + Len(b[i])
<1>1. f[i] = f[i - 1] \o b[i]
    BY DEF Sums
<1>2. b \in Seq(Seq(Nat)) /\ f \in [0..Len(b) -> Seq(Nat)]
    BY DEF Sums
<1>3. PICK n \in Nat : n = Len(b)
    BY <1>2
<1>6. i \in 1..n /\ i - 1 \in 0..n
    BY <1>3
<1>7. f[i - 1] \in Seq(Nat)
    BY <1>2, <1>3, <1>6
<1>8. b[i] \in Seq(Nat)
    BY <1>2
<1>4. b[i] \in Seq(Nat) /\ f[i - 1] \in Seq(Nat)
    BY <1>7, <1>8
<1>5. Len(f[i - 1] \o b[i]) = Len(f[i - 1]) + Len(b[i])
    BY <1>4, Joined
<1> QED
    BY <1>1, <1>4, <1>5

LEMMA PartsOfWhole ==
    ASSUME NEW b \in Seq(Seq(Nat)), NEW data, NEW at, Has(data, at, FlattenSeq(b))
    PROVE  \E off : /\ Places(off, b)
                    /\ \A j \in 1..Len(b) : Has(data, at + off[j - 1], b[j])
<1>1. PICK f : Sums(Nat, f, b)
    BY SumsExist
<1>2. PICK n \in Nat : n = Len(b)
    OBVIOUS
<1>3. f \in [0..n -> Seq(Nat)] /\ f[0] = <<>>
    BY <1>1, <1>2, Zenon DEF Sums
<1>4. FlattenSeq(b) = f[n]
    BY <1>1, <1>2, FlattenIsSum
<1> DEFINE off == [j \in 0..n |-> Len(f[j])]
<1>5. ASSUME NEW i \in 1..n
      PROVE  /\ f[i] = f[i - 1] \o b[i] /\ b[i] \in Seq(Nat)
             /\ f[i - 1] \in Seq(Nat) /\ i - 1 \in 0..n
             /\ Len(f[i]) = Len(f[i - 1]) + Len(b[i])
    <2>1. i - 1 \in 0..n
        OBVIOUS
    <2>2. i \in 1..Len(b)
        BY <1>2
    <2>3. \A k \in 1..Len(b) : f[k] = f[k - 1] \o b[k]
        BY <1>1, SumStep, Zenon
    <2>4. \A k \in 1..Len(b) : b[k] \in Seq(Nat) /\ f[k - 1] \in Seq(Nat)
        BY <1>1, SumStep, Zenon
    <2>5. \A k \in 1..Len(b) : Len(f[k]) = Len(f[k - 1]) + Len(b[k])
        <3> TAKE k \in 1..Len(b)
        <3>1. f[k] = f[k - 1] \o b[k] /\ b[k] \in Seq(Nat) /\ f[k - 1] \in Seq(Nat)
            BY <2>3, <2>4, Zenon
        <3>2. Len(f[k - 1] \o b[k]) = Len(f[k - 1]) + Len(b[k])
            BY <3>1, Joined
        <3> QED
            BY <3>1, <3>2, Zenon
    <2> QED
        BY <2>1, <2>2, <2>3, <2>4, <2>5, Zenon
<1>6. off \in [0..n -> Nat] /\ off[0] = 0 /\ off[n] = Len(FlattenSeq(b))
    <2>1. \A j \in 0..n : Len(f[j]) \in Nat
        BY <1>3
    <2>2. Len(f[0]) = 0
        BY <1>3
    <2> QED
        BY <1>2, <1>4, <2>1, <2>2
<1>7. ASSUME NEW j \in 1..n PROVE off[j] = off[j - 1] + Len(b[j])
    <2>2. Len(f[j]) = Len(f[j - 1]) + Len(b[j])
        BY <1>5
    <2>1. Len(f[j]) = Len(f[j - 1]) + Len(b[j]) /\ j - 1 \in 0..n /\ j \in 0..n
        BY <2>2
    <2> QED
        BY <2>1
<1> HIDE DEF off
<1>8. Places(off, b)
    BY <1>2, <1>6, <1>7 DEF Places
<1> DEFINE T == {d \in Nat : d <= n => Has(data, at, f[n - d])}
<1>9. 0 \in T
    BY <1>4
<1>10. ASSUME NEW d \in Nat, d \in T PROVE d + 1 \in T
    <2> SUFFICES ASSUME d + 1 <= n PROVE Has(data, at, f[n - (d + 1)])
        OBVIOUS
    <2>1. PICK i : i = n - d
        OBVIOUS
    <2>2. i \in 1..n /\ i - 1 = n - (d + 1) /\ d <= n
        BY <2>1
    <2>3. Has(data, at, f[i])
        BY <1>10, <2>1, <2>2
    <2>4. Has(data, at, f[i - 1])
        BY <1>5, <2>2, <2>3, HasParts
    <2> QED
        BY <2>2, <2>4
<1>11. Nat \subseteq T
    <2> HIDE DEF T
    <2> QED
        BY <1>9, <1>10, SetInduction
<1>12. ASSUME NEW j \in 1..n PROVE Has(data, at + off[j - 1], b[j])
    <2>1. n - j \in Nat /\ n - j <= n /\ n - (n - j) = j
        OBVIOUS
    <2>2. Has(data, at, f[j])
        BY <1>11, <2>1
    <2>3. Has(data, at + Len(f[j - 1]), b[j])
        BY <1>5, <2>2, HasParts
    <2> QED
        BY <1>5, <2>3 DEF off
<1> QED
    BY <1>2, <1>8, <1>12

LEMMA PlacesOrder ==
    ASSUME NEW b \in Seq(Seq(Nat)), NEW off, Places(off, b), NEW j \in 0..Len(b)
    PROVE  off[j] \in Nat /\ off[j] <= Len(FlattenSeq(b))
<1>1. PICK n \in Nat : n = Len(b)
    OBVIOUS
<1>2. /\ off \in [0..n -> Nat] /\ off[n] = Len(FlattenSeq(b))
      /\ \A k \in 1..n : off[k] = off[k - 1] + Len(b[k])
    BY <1>1 DEF Places
<1> DEFINE T == {d \in Nat : d <= n => off[n - d] <= off[n]}
<1>3. 0 \in T
    BY <1>2
<1>4. ASSUME NEW d \in Nat, d \in T PROVE d + 1 \in T
    <2> SUFFICES ASSUME d + 1 <= n PROVE off[n - (d + 1)] <= off[n]
        OBVIOUS
    <2>1. PICK k : k = n - d
        OBVIOUS
    <2>2. k \in 1..n /\ k - 1 = n - (d + 1) /\ d <= n
        BY <2>1
    <2>3. off[k] <= off[n]
        BY <1>4, <2>1, <2>2
    <2>4. off[k] = off[k - 1] + Len(b[k]) /\ Len(b[k]) \in Nat
        BY <1>1, <1>2, <2>2
    <2>5. off[k] \in Nat /\ off[k - 1] \in Nat /\ off[n] \in Nat
        BY <1>2, <2>2
    <2>6. off[k - 1] <= off[n]
        BY <2>3, <2>4, <2>5
    <2> QED
        BY <2>2, <2>6
<1>5. n - j \in T
    <2>1. n - j \in Nat
        BY <1>1
    <2> HIDE DEF T
    <2> QED
        BY <1>3, <1>4, <2>1, SetInduction
<1>6. n - j <= n /\ n - (n - j) = j
    BY <1>1
<1> QED
    BY <1>1, <1>2, <1>5, <1>6

-----------------------------------------------------------------------------
(***************************************************************************)
(* The loops of the parsers.                                               *)
(***************************************************************************)
\* What a loop has read after each iteration.
Loops(f, kind, data, start, end) ==
    f = [k \in 0..end |-> IF k = 0 THEN Got(<<>>, start) ELSE More(kind, data, end, f[k - 1])]

LEMMA LoopsExist ==
    ASSUME NEW kind, NEW data, NEW start, NEW end \in Nat
    PROVE  \E f : /\ Loops(f, kind, data, start, end)
                  /\ Repeat(kind, data, start, end) = f[end]
<1> DEFINE Step(x) == More(kind, data, end, x)
           first == Got(<<>>, start)
           Fits(f, j) == f = [k \in 0..j |-> IF k = 0 THEN first ELSE Step(f[k - 1])]
           T == {j \in Nat : \E f : Fits(f, j)}
<1>1. Repeat(kind, data, start, end) = (CHOOSE f : Fits(f, end))[end]
    BY Zenon DEF Repeat
<1> HIDE DEF Step, first
<1>2. 0 \in T
    <2>1. Fits([k \in 0..0 |-> first], 0)
        OBVIOUS
    <2> QED
        BY <2>1
<1>3. ASSUME NEW j \in Nat, j \in T PROVE j + 1 \in T
    <2>1. PICK f : Fits(f, j)
        BY <1>3
    <2> DEFINE g == [k \in 0..(j + 1) |-> IF k = j + 1 THEN Step(f[j]) ELSE f[k]]
    <2>2. ASSUME NEW k \in 0..(j + 1)
          PROVE  g[k] = IF k = 0 THEN first ELSE Step(g[k - 1])
        <3>1. CASE k = j + 1
            <4>1. k - 1 = j /\ j # j + 1 /\ j \in 0..(j + 1) /\ j + 1 \in 0..(j + 1) /\ k # 0
                BY <3>1
            <4>2. g[j + 1] = Step(f[j]) /\ g[j] = f[j]
                BY <4>1
            <4> HIDE DEF g
            <4> QED
                BY <3>1, <4>1, <4>2
        <3>2. CASE k # j + 1
            <4>1. k \in 0..j
                BY <3>2
            <4>2. f[k] = IF k = 0 THEN first ELSE Step(f[k - 1])
                BY <2>1, <4>1
            <4>3. g[k] = f[k]
                BY <3>2
            <4>4. k # 0 => g[k - 1] = f[k - 1]
                BY <4>1
            <4> HIDE DEF g
            <4> QED
                BY <4>2, <4>3, <4>4
        <3> QED
            BY <3>1, <3>2
    <2>3. Fits(g, j + 1)
        BY <2>2
    <2> HIDE DEF Fits, g
    <2> QED
        BY <2>3
<1>4. end \in T
    <2> HIDE DEF T
    <2> QED
        BY <1>2, <1>3, SetInduction
<1>5. Fits(CHOOSE f : Fits(f, end), end)
    <2> HIDE DEF Fits
    <2> QED
        BY <1>4
<1> QED
    BY <1>1, <1>5 DEF Loops, Step, first

\* The loop gets to an offset, with a list.
Reaches(f, start, end, list, at) ==
    \E k \in 0..end : k <= at - start /\ f[k] = Got(list, at)

LEMMA ReachStart ==
    ASSUME NEW f, NEW kind, NEW data, NEW start \in Nat, NEW end \in Nat,
           Loops(f, kind, data, start, end)
    PROVE  Reaches(f, start, end, <<>>, start)
<1>1. 0 \in 0..end /\ 0 <= start - start
    OBVIOUS
<1>2. f[0] = Got(<<>>, start)
    BY <1>1 DEF Loops
<1> QED
    BY <1>1, <1>2, Zenon DEF Reaches

LEMMA LoopStep ==
    ASSUME NEW f, NEW kind, NEW data, NEW start, NEW end \in Nat,
           Loops(f, kind, data, start, end), NEW k \in Nat, k < end
    PROVE  f[k + 1] = More(kind, data, end, f[k])
<1>1. k + 1 \in 0..end /\ k + 1 # 0 /\ (k + 1) - 1 = k
    OBVIOUS
<1> QED
    BY <1>1 DEF Loops

LEMMA MoreReads ==
    ASSUME NEW kind, NEW data, NEW end \in Nat, NEW list, NEW at \in Nat, at < end,
           NEW item, NEW next, Item(kind, data, at) = Got(item, next)
    PROVE  More(kind, data, end, Got(list, at)) = Got(Add(kind, list, item), next)
<1>1. ~(at >= end)
    OBVIOUS
<1> QED
    BY <1>1 DEF More, Then, Got

LEMMA ReachNext ==
    ASSUME NEW f, NEW kind, NEW data, NEW start \in Nat, NEW end \in Nat,
           Loops(f, kind, data, start, end),
           NEW list, NEW at \in Nat, Reaches(f, start, end, list, at), at < end,
           NEW item, NEW next \in Nat, at < next, Item(kind, data, at) = Got(item, next)
    PROVE  Reaches(f, start, end, Add(kind, list, item), next)
<1>1. PICK k \in 0..end : k <= at - start /\ f[k] = Got(list, at)
    BY DEF Reaches
<1>2. k < end /\ k \in Nat /\ k + 1 \in 0..end /\ k + 1 <= next - start
    BY <1>1
<1>3. f[k + 1] = More(kind, data, end, Got(list, at))
    BY <1>1, <1>2, LoopStep
<1>4. f[k + 1] = Got(Add(kind, list, item), next)
    BY <1>3, MoreReads
<1> QED
    BY <1>2, <1>4, Zenon DEF Reaches

LEMMA ReachEnd ==
    ASSUME NEW f, NEW kind, NEW data, NEW start \in Nat, NEW end \in Nat,
           Loops(f, kind, data, start, end),
           NEW list, Reaches(f, start, end, list, end)
    PROVE  f[end] = Got(list, end)
<1>1. PICK k \in 0..end : f[k] = Got(list, end)
    BY DEF Reaches
<1> DEFINE T == {j \in Nat : k + j <= end => f[k + j] = Got(list, end)}
<1>2. 0 \in T
    BY <1>1
<1>3. ASSUME NEW j \in Nat, j \in T PROVE j + 1 \in T
    <2> SUFFICES ASSUME k + (j + 1) <= end PROVE f[k + (j + 1)] = Got(list, end)
        OBVIOUS
    <2>1. PICK i \in Nat : i = k + j
        OBVIOUS
    <2>2. i < end /\ i + 1 = k + (j + 1)
        BY <2>1
    <2>3. f[i] = Got(list, end)
        BY <1>3, <2>1, <2>2
    <2>4. f[i + 1] = More(kind, data, end, Got(list, end))
        BY <2>2, <2>3, LoopStep
    <2>5. More(kind, data, end, Got(list, end)) = Got(list, end)
        <3>1. end >= end
            OBVIOUS
        <3> QED
            BY <3>1 DEF More, Then, Got
    <2> QED
        BY <2>2, <2>4, <2>5
<1>4. end - k \in T
    <2>1. end - k \in Nat
        OBVIOUS
    <2> HIDE DEF T
    <2> QED
        BY <1>2, <1>3, <2>1, SetInduction
<1>5. k + (end - k) = end
    OBVIOUS
<1> QED
    BY <1>4, <1>5

\* The fields of a packet, by name and type.
FieldNames ==
    {"name", "level", "flags", "keepalive", "props", "cid", "willProps", "willTopic",
     "willPayload", "username", "password", "topic", "id", "payload", "filters", "rc"}
FieldTypes == {"byte", "u16", "text", "props", "rest", "filter", "subscription"}
Layouts == Seq(FieldNames \X FieldTypes)

\* What Fields has read after each field.
Reads(f, layout, data, at, record) ==
    f = [k \in 0..Len(layout) |-> IF k = 0 THEN Got(record, at)
                                  ELSE NextField(f[k - 1], layout[k], data)]

LEMMA ReadsExist ==
    ASSUME NEW layout \in Layouts, NEW data, NEW at, NEW record
    PROVE  \E f : /\ Reads(f, layout, data, at, record)
                  /\ Fields(layout, data, at, record) = f[Len(layout)]
<1> DEFINE Step(x, k) == NextField(x, layout[k], data)
           first == Got(record, at)
           n == Len(layout)
           Fits(f, j) == f = [k \in 0..j |-> IF k = 0 THEN first ELSE Step(f[k - 1], k)]
           T == {j \in Nat : \E f : Fits(f, j)}
<1>1. Fields(layout, data, at, record) = (CHOOSE f : Fits(f, n))[n]
    BY Zenon DEF Fields
<1>0. n \in Nat
    BY DEF Layouts
<1> HIDE DEF Step, first, n
<1>2. 0 \in T
    <2>1. Fits([k \in 0..0 |-> first], 0)
        OBVIOUS
    <2> QED
        BY <2>1
<1>3. ASSUME NEW j \in Nat, j \in T PROVE j + 1 \in T
    <2>1. PICK f : Fits(f, j)
        BY <1>3
    <2> DEFINE g == [k \in 0..(j + 1) |-> IF k = j + 1 THEN Step(f[j], k) ELSE f[k]]
    <2>2. ASSUME NEW k \in 0..(j + 1)
          PROVE  g[k] = IF k = 0 THEN first ELSE Step(g[k - 1], k)
        <3>1. CASE k = j + 1
            <4>1. k - 1 = j /\ j # j + 1 /\ j \in 0..(j + 1) /\ j + 1 \in 0..(j + 1) /\ k # 0
                BY <3>1
            <4>2. g[j + 1] = Step(f[j], j + 1) /\ g[j] = f[j]
                BY <4>1
            <4> HIDE DEF g
            <4> QED
                BY <3>1, <4>1, <4>2
        <3>2. CASE k # j + 1
            <4>1. k \in 0..j
                BY <3>2
            <4>2. f[k] = IF k = 0 THEN first ELSE Step(f[k - 1], k)
                BY <2>1, <4>1
            <4>3. g[k] = f[k]
                BY <3>2
            <4>4. k # 0 => g[k - 1] = f[k - 1]
                BY <4>1
            <4> HIDE DEF g
            <4> QED
                BY <4>2, <4>3, <4>4
        <3> QED
            BY <3>1, <3>2
    <2>3. Fits(g, j + 1)
        BY <2>2
    <2> HIDE DEF Fits, g
    <2> QED
        BY <2>3
<1>4. n \in T
    <2> HIDE DEF T
    <2> QED
        BY <1>0, <1>2, <1>3, SetInduction
<1>5. Fits(CHOOSE f : Fits(f, n), n)
    <2> HIDE DEF Fits
    <2> QED
        BY <1>4
<1> QED
    BY <1>1, <1>5 DEF Reads, Step, first, n

LEMMA ReadFirst ==
    ASSUME NEW f, NEW layout \in Layouts, NEW data, NEW at, NEW record,
           Reads(f, layout, data, at, record)
    PROVE  f[0] = Got(record, at)
<1>1. Len(layout) \in Nat
    BY DEF Layouts
<1>2. 0 \in 0..Len(layout)
    BY <1>1
<1> QED
    BY <1>2 DEF Reads

LEMMA ReadStep ==
    ASSUME NEW f, NEW layout \in Layouts, NEW data, NEW at, NEW record,
           Reads(f, layout, data, at, record), NEW k \in Nat, k < Len(layout)
    PROVE  f[k + 1] = NextField(f[k], layout[k + 1], data)
<1>1. Len(layout) \in Nat
    BY DEF Layouts
<1>2. k + 1 \in 0..Len(layout) /\ k + 1 # 0 /\ (k + 1) - 1 = k
    BY <1>1
<1> QED
    BY <1>2 DEF Reads

LEMMA FieldsNone ==
    ASSUME NEW data, NEW at, NEW record
    PROVE  Fields(<<>>, data, at, record) = Got(record, at)
<1>1. <<>> \in Layouts /\ Len(<<>>) = 0
    BY DEF Layouts
<1>2. PICK f : /\ Reads(f, <<>>, data, at, record)
               /\ Fields(<<>>, data, at, record) = f[0]
    BY <1>1, ReadsExist
<1> QED
    BY <1>1, <1>2, ReadFirst, Zenon

\* The fields of a part, then the rest.
LEMMA FieldsConcat ==
    ASSUME NEW a \in Layouts, NEW b \in Layouts, NEW data, NEW at, NEW record,
           NEW at1, NEW record1, Fields(a, data, at, record) = Got(record1, at1)
    PROVE  Fields(a \o b, data, at, record) = Fields(b, data, at1, record1)
<1> DEFINE c == a \o b
<1>1. /\ c \in Layouts /\ Len(a) \in Nat /\ Len(b) \in Nat /\ Len(c) = Len(a) + Len(b)
      /\ \A i \in 1..Len(a) : c[i] = a[i]
      /\ \A i \in 1..Len(b) : c[Len(a) + i] = b[i]
    BY ConcatTypes DEF Layouts
<1> HIDE DEF c
<1>14. c \in Layouts
    BY <1>1
<1>2. PICK f : Reads(f, a, data, at, record) /\ Fields(a, data, at, record) = f[Len(a)]
    BY ReadsExist
<1>3. PICK g : Reads(g, b, data, at1, record1) /\ Fields(b, data, at1, record1) = g[Len(b)]
    BY ReadsExist
<1>4. PICK h : Reads(h, c, data, at, record) /\ Fields(c, data, at, record) = h[Len(c)]
    BY <1>14, ReadsExist
<1>5. PICK m \in Nat, n \in Nat : m = Len(a) /\ n = Len(b)
    BY <1>1
<1>6. /\ f[0] = Got(record, at) /\ g[0] = Got(record1, at1) /\ h[0] = Got(record, at)
    <2>1. f[0] = Got(record, at)
        BY <1>2, ReadFirst, Zenon
    <2>2. g[0] = Got(record1, at1)
        BY <1>3, ReadFirst, Zenon
    <2>3. h[0] = Got(record, at)
        BY <1>4, <1>14, ReadFirst, Zenon
    <2> QED
        BY <2>1, <2>2, <2>3
<1>7. \A k \in Nat : k < m => f[k + 1] = NextField(f[k], a[k + 1], data)
    <2> TAKE k \in Nat
    <2> SUFFICES ASSUME k < m PROVE f[k + 1] = NextField(f[k], a[k + 1], data)
        OBVIOUS
    <2>1. k < Len(a)
        BY <1>5
    <2> QED
        BY <1>2, <2>1, ReadStep, Zenon
<1>8. \A k \in Nat : k < n => g[k + 1] = NextField(g[k], b[k + 1], data)
    <2> TAKE k \in Nat
    <2> SUFFICES ASSUME k < n PROVE g[k + 1] = NextField(g[k], b[k + 1], data)
        OBVIOUS
    <2>1. k < Len(b)
        BY <1>5
    <2> QED
        BY <1>3, <2>1, ReadStep, Zenon
<1>9. \A k \in Nat : k < m + n => h[k + 1] = NextField(h[k], c[k + 1], data)
    <2> TAKE k \in Nat
    <2> SUFFICES ASSUME k < m + n PROVE h[k + 1] = NextField(h[k], c[k + 1], data)
        OBVIOUS
    <2>1. k < Len(c)
        BY <1>1, <1>5
    <2> QED
        BY <1>4, <1>14, <2>1, ReadStep, Zenon
<1>10. h[m] = f[m]
    <2> DEFINE T == {k \in Nat : k <= m => h[k] = f[k]}
    <2>1. 0 \in T
        BY <1>6
    <2>2. ASSUME NEW k \in Nat, k \in T PROVE k + 1 \in T
        <3> SUFFICES ASSUME k + 1 <= m PROVE h[k + 1] = f[k + 1]
            OBVIOUS
        <3>1. k < m /\ k < m + n /\ k <= m /\ k + 1 \in 1..m
            OBVIOUS
        <3>2. h[k] = f[k] /\ c[k + 1] = a[k + 1]
            BY <1>1, <1>5, <2>2, <3>1
        <3>3. h[k + 1] = NextField(h[k], c[k + 1], data)
            BY <1>9, <3>1
        <3>4. f[k + 1] = NextField(f[k], a[k + 1], data)
            BY <1>7, <3>1
        <3> QED
            BY <3>2, <3>3, <3>4
    <2>3. Nat \subseteq T
        <3> HIDE DEF T
        <3> QED
            BY <2>1, <2>2, SetInduction
    <2> QED
        BY <2>3
<1>11. h[m] = g[0]
    BY <1>2, <1>5, <1>6, <1>10
<1>12. h[m + n] = g[n]
    <2> DEFINE T == {k \in Nat : k <= n => h[m + k] = g[k]}
    <2>1. 0 \in T
        BY <1>11
    <2>2. ASSUME NEW k \in Nat, k \in T PROVE k + 1 \in T
        <3> SUFFICES ASSUME k + 1 <= n PROVE h[m + (k + 1)] = g[k + 1]
            OBVIOUS
        <3>1. PICK i \in Nat : i = m + k
            OBVIOUS
        <3>2. k < n /\ i < m + n /\ k <= n /\ k + 1 \in 1..n
            BY <3>1
        <3>3. i + 1 = m + (k + 1)
            BY <3>1
        <3>4. h[i] = g[k] /\ c[i + 1] = b[k + 1]
            BY <1>1, <1>5, <2>2, <3>1, <3>2, <3>3
        <3>5. h[i + 1] = NextField(h[i], c[i + 1], data)
            BY <1>9, <3>2
        <3>6. g[k + 1] = NextField(g[k], b[k + 1], data)
            BY <1>8, <3>2
        <3> QED
            BY <3>3, <3>4, <3>5, <3>6
    <2>3. Nat \subseteq T
        <3> HIDE DEF T
        <3> QED
            BY <2>1, <2>2, SetInduction
    <2> QED
        BY <2>3
<1>13. h[Len(c)] = g[Len(b)]
    BY <1>1, <1>5, <1>12
<1> QED
    BY <1>3, <1>4, <1>13 DEF c

\* One field.
LEMMA OneField ==
    ASSUME NEW name \in FieldNames, NEW type \in FieldTypes
    PROVE  <<<<name, type>>>> \in Layouts
<1>1. PICK field : field = <<name, type>>
    OBVIOUS
<1>2. field \in FieldNames \X FieldTypes
    BY <1>1
<1>3. <<field>> \in Seq(FieldNames \X FieldTypes)
    BY <1>2
<1> QED
    BY <1>1, <1>3, Zenon DEF Layouts

LEMMA FieldsOne ==
    ASSUME NEW name \in FieldNames, NEW type \in FieldTypes, NEW data, NEW at, NEW record,
           NEW val, NEW next, DecodeField(type, data, at) = Got(val, next)
    PROVE  Fields(<<<<name, type>>>>, data, at, record)
             = Got([record EXCEPT ![name] = val], next)
<1>1. PICK field : field = <<name, type>>
    OBVIOUS
<1>2. field[1] = name /\ field[2] = type
    BY <1>1
<1>7. <<field>> \in Layouts
    BY <1>1, OneField
<1>8. Len(<<field>>) = 1 /\ <<field>>[1] = field
    OBVIOUS
<1>3. PICK f : /\ Reads(f, <<field>>, data, at, record)
               /\ Fields(<<field>>, data, at, record) = f[1]
    BY <1>7, <1>8, ReadsExist
<1>9. f[0] = Got(record, at)
    BY <1>3, <1>7, ReadFirst, Zenon
<1>4. f[0 + 1] = NextField(f[0], <<field>>[0 + 1], data)
    <2>1. 0 \in Nat /\ 0 < Len(<<field>>)
        BY <1>8
    <2> QED
        BY <1>7, <1>3, <2>1, ReadStep, Zenon
<1>5. f[1] = NextField(Got(record, at), field, data)
    BY <1>4, <1>8, <1>9
<1>6. NextField(Got(record, at), field, data) = Got([record EXCEPT ![name] = val], next)
    BY <1>2 DEF NextField, Then, Got
<1> QED
    BY <1>1, <1>3, <1>5, <1>6

\* A field, then the rest.
LEMMA FieldThen ==
    ASSUME NEW name \in FieldNames, NEW type \in FieldTypes, NEW b \in Layouts,
           NEW data, NEW at, NEW record,
           NEW val, NEW next, DecodeField(type, data, at) = Got(val, next)
    PROVE  Fields(<<<<name, type>>>> \o b, data, at, record)
             = Fields(b, data, next, [record EXCEPT ![name] = val])
<1>1. <<<<name, type>>>> \in Layouts
    BY OneField
<1>2. Fields(<<<<name, type>>>>, data, at, record)
             = Got([record EXCEPT ![name] = val], next)
    BY FieldsOne
<1>3. PICK a : a = <<<<name, type>>>>
    OBVIOUS
<1>4. PICK r : r = [record EXCEPT ![name] = val]
    OBVIOUS
<1>5. a \in Layouts /\ Fields(a, data, at, record) = Got(r, next)
    BY <1>1, <1>2, <1>3, <1>4
<1>6. Fields(a \o b, data, at, record) = Fields(b, data, next, r)
    BY <1>5, FieldsConcat
<1> QED
    BY <1>3, <1>4, <1>6

Types == {"byte", "u16", "u32", "varint", "text", "pair"}

LEMMA PropTypes == \A id : PropType(id) \in Types
BY DEF PropType, Types

LEMMA BytesAreNumbers ==
    ASSUME NEW s, IsText(s)
    PROVE  s \in Seq(Nat)
<1>1. s \in Seq(0..255)
    BY DEF IsText
<1>2. 0..255 \subseteq Nat
    OBVIOUS
<1> QED
    BY <1>1, <1>2, SeqMonotonic, Zenon

LEMMA PairValue ==
    ASSUME NEW val, IsValue("pair", val)
    PROVE  val = <<val[1], val[2]>> /\ val[1] \in Seq(Nat) /\ val[2] \in Seq(Nat)
<1>1. val = <<val[1], val[2]>> /\ IsText(val[1]) /\ IsText(val[2])
    BY DEF IsValue
<1> QED
    BY <1>1, BytesAreNumbers, Zenon

LEMMA ValueBytes ==
    ASSUME NEW type \in Types, NEW val, IsValue(type, val)
    PROVE  EncodeValue(type, val) \in Seq(Nat)
<1>1. CASE type = "byte"
    <2>1. val \in Nat
        BY <1>1 DEF IsValue
    <2>2. EncodeValue(type, val) = <<val>>
        BY <1>1 DEF EncodeValue
    <2> QED
        BY <2>1, <2>2
<1>2. CASE type = "u16"
    <2>1. val \in Nat
        BY <1>2 DEF IsValue
    <2> QED
        BY <1>2, <2>1, WordBytes DEF EncodeValue
<1>3. CASE type = "u32"
    <2>1. val \in Nat
        BY <1>3 DEF IsValue
    <2> QED
        BY <1>3, <2>1, LongBytes DEF EncodeValue
<1>4. CASE type = "varint"
    <2>1. val \in Nat
        BY <1>4 DEF IsValue
    <2> QED
        BY <1>4, <2>1, Encoding DEF EncodeValue
<1>5. CASE type = "text"
    <2>1. val \in Seq(Nat)
        BY <1>5, BytesAreNumbers DEF IsValue
    <2> QED
        BY <1>5, <2>1, TextBytes DEF EncodeValue
<1>6. CASE type = "pair"
    <2>1. val[1] \in Seq(Nat) /\ val[2] \in Seq(Nat)
        BY <1>6, PairValue
    <2>2. EncodeText(val[1]) \in Seq(Nat) /\ EncodeText(val[2]) \in Seq(Nat)
        BY <2>1, TextBytes
    <2>3. EncodeText(val[1]) \o EncodeText(val[2]) \in Seq(Nat)
        BY <2>2, Joined
    <2> QED
        BY <1>6, <2>3 DEF EncodeValue
<1> QED
    BY <1>1, <1>2, <1>3, <1>4, <1>5, <1>6 DEF Types

LEMMA ValueRead ==
    ASSUME NEW type \in Types, NEW val, IsValue(type, val),
           NEW data, NEW at, Has(data, at, EncodeValue(type, val))
    PROVE  DecodeValue(type, data, at) = Got(val, at + Len(EncodeValue(type, val)))
<1>1. CASE type = "byte"
    <2>1. val \in Nat
        BY <1>1 DEF IsValue
    <2>2. EncodeValue(type, val) = <<val>> /\ Len(<<val>>) = 1
        BY <1>1 DEF EncodeValue
    <2>3. DecodeByte(data, at) = Got(val, at + 1)
        BY <2>1, <2>2, ByteRead
    <2>4. DecodeValue(type, data, at) = DecodeByte(data, at)
        BY <1>1 DEF DecodeValue
    <2> QED
        BY <2>2, <2>3, <2>4
<1>2. CASE type = "u16"
    <2>1. val \in Nat
        BY <1>2 DEF IsValue
    <2>2. EncodeValue(type, val) = Word(val)
        BY <1>2 DEF EncodeValue
    <2>3. DecodeWord(data, at) = Got(val, at + 2) /\ Len(Word(val)) = 2
        BY <2>1, <2>2, WordRead, WordBytes
    <2>4. DecodeValue(type, data, at) = DecodeWord(data, at)
        BY <1>2 DEF DecodeValue
    <2> QED
        BY <2>2, <2>3, <2>4
<1>3. CASE type = "u32"
    <2>1. val \in Nat
        BY <1>3 DEF IsValue
    <2>2. EncodeValue(type, val) = Long(val)
        BY <1>3 DEF EncodeValue
    <2>3. DecodeLong(data, at) = Got(val, at + 4) /\ Len(Long(val)) = 4
        BY <2>1, <2>2, LongRead, LongBytes
    <2>4. DecodeValue(type, data, at) = DecodeLong(data, at)
        BY <1>3 DEF DecodeValue
    <2> QED
        BY <2>2, <2>3, <2>4
<1>4. CASE type = "varint"
    <2>1. val \in Nat /\ Len(EncodeVarint[val]) <= 4
        BY <1>4 DEF IsValue
    <2>2. EncodeValue(type, val) = EncodeVarint[val]
        BY <1>4 DEF EncodeValue
    <2>3. DecodeVarint(data, at) = Got(val, at + Len(EncodeVarint[val]))
        BY <2>1, <2>2, VarintRead
    <2>4. DecodeValue(type, data, at) = DecodeVarint(data, at)
        BY <1>4 DEF DecodeValue
    <2> QED
        BY <2>2, <2>3, <2>4
<1>5. CASE type = "text"
    <2>1. val \in Seq(Nat)
        BY <1>5, BytesAreNumbers DEF IsValue
    <2>2. EncodeValue(type, val) = EncodeText(val)
        BY <1>5 DEF EncodeValue
    <2>3. DecodeText(data, at) = Got(val, at + Len(EncodeText(val)))
        BY <2>1, <2>2, TextRead
    <2>4. DecodeValue(type, data, at) = DecodeText(data, at)
        BY <1>5 DEF DecodeValue
    <2> QED
        BY <2>2, <2>3, <2>4
<1>6. CASE type = "pair"
    <2>1. val = <<val[1], val[2]>> /\ val[1] \in Seq(Nat) /\ val[2] \in Seq(Nat)
        BY <1>6, PairValue
    <2>2. PICK k \in Seq(Nat), v \in Seq(Nat) : k = val[1] /\ v = val[2] /\ val = <<k, v>>
        BY <2>1
    <2>3. EncodeValue(type, val) = EncodeText(k) \o EncodeText(v)
        BY <1>6, <2>2 DEF EncodeValue
    <2>4. DecodePair(data, at) = Got(<<k, v>>, at + Len(EncodeText(k) \o EncodeText(v)))
        BY <2>3, PairRead
    <2>5. DecodeValue(type, data, at) = DecodePair(data, at)
        BY <1>6 DEF DecodeValue
    <2> QED
        BY <2>2, <2>3, <2>4, <2>5
<1> QED
    BY <1>1, <1>2, <1>3, <1>4, <1>5, <1>6 DEF Types

\* One entry of the properties.
LEMMA EntryRead ==
    ASSUME NEW id \in 1..255, NEW val, IsValue(PropType(id), val),
           NEW data, NEW at, Has(data, at, EntryBytes(id, val))
    PROVE  Item("property", data, at) = Got(<<id, val>>, at + Len(EntryBytes(id, val)))
<1>1. PICK e : e = EncodeValue(PropType(id), val)
    OBVIOUS
<1>2. e \in Seq(Nat) /\ <<id>> \in Seq(Nat) /\ Len(<<id>>) = 1 /\ EntryBytes(id, val) = <<id>> \o e
    BY <1>1, ValueBytes, PropTypes DEF EntryBytes
<1>3. Has(data, at, <<id>>) /\ Has(data, at + 1, e)
    BY <1>2, HasParts
<1>4. DecodeByte(data, at) = Got(id, at + 1)
    BY <1>3, ByteRead
<1>5. DecodeValue(PropType(id), data, at + 1) = Got(val, (at + 1) + Len(e))
    BY <1>1, <1>3, ValueRead, PropTypes
<1>6. (at + 1) + Len(e) = at + Len(EntryBytes(id, val))
    <2>1. at \in Nat /\ Len(e) \in Nat
        BY <1>2, <1>3 DEF Has
    <2>2. Len(<<id>> \o e) = 1 + Len(e)
        BY <1>2, Joined
    <2> QED
        BY <1>2, <2>1, <2>2
<1>8. Item("property", data, at) = Got(<<id, val>>, (at + 1) + Len(e))
    BY <1>4, <1>5 DEF Item, Then, Got
<1> QED
    BY <1>6, <1>8

LEMMA EntrySize ==
    ASSUME NEW id \in 1..255, NEW val, IsValue(PropType(id), val)
    PROVE  EntryBytes(id, val) \in Seq(Nat) /\ Len(EntryBytes(id, val)) \in Nat \ {0}
<1>1. PICK e \in Seq(Nat) : e = EncodeValue(PropType(id), val)
    BY ValueBytes, PropTypes
<1>2. <<id>> \in Seq(Nat) /\ Len(<<id>>) = 1 /\ EntryBytes(id, val) = <<id>> \o e
    BY <1>1 DEF EntryBytes
<1>3. <<id>> \o e \in Seq(Nat) /\ Len(<<id>> \o e) = 1 + Len(e) /\ Len(e) \in Nat
    BY <1>2, Joined
<1> QED
    BY <1>2, <1>3

\* A part takes the loop on.
Moves(f, data, start, end, list, next, bytes) ==
    \A at \in Nat :
        Reaches(f, start, end, list, at) /\ Has(data, at, bytes) /\ at + Len(bytes) <= end
            => Reaches(f, start, end, next, at + Len(bytes))

\* Parts in a row, with the lists after each of them.
LEMMA PartsMove ==
    ASSUME NEW f, NEW data, NEW start \in Nat, NEW end \in Nat,
           NEW b \in Seq(Seq(Nat)), NEW acc,
           \A j \in 1..Len(b) : Moves(f, data, start, end, acc[j - 1], acc[j], b[j])
    PROVE  Moves(f, data, start, end, acc[0], acc[Len(b)], FlattenSeq(b))
<1> SUFFICES ASSUME NEW at \in Nat, Reaches(f, start, end, acc[0], at),
                    Has(data, at, FlattenSeq(b)), at + Len(FlattenSeq(b)) <= end
             PROVE  Reaches(f, start, end, acc[Len(b)], at + Len(FlattenSeq(b)))
    BY DEF Moves
<1>1. PICK off : /\ Places(off, b)
                 /\ \A j \in 1..Len(b) : Has(data, at + off[j - 1], b[j])
    BY PartsOfWhole
<1>2. PICK n \in Nat : n = Len(b)
    OBVIOUS
<1>3. /\ off \in [0..n -> Nat] /\ off[0] = 0 /\ off[n] = Len(FlattenSeq(b))
      /\ \A j \in 1..n : off[j] = off[j - 1] + Len(b[j])
    BY <1>1, <1>2 DEF Places
<1> DEFINE T == {j \in Nat : j <= n => Reaches(f, start, end, acc[j], at + off[j])}
<1>4. 0 \in T
    <2>1. at + off[0] = at
        BY <1>3
    <2> QED
        BY <2>1
<1>5. ASSUME NEW j \in Nat, j \in T PROVE j + 1 \in T
    <2> SUFFICES ASSUME j + 1 <= n
                 PROVE  Reaches(f, start, end, acc[j + 1], at + off[j + 1])
        OBVIOUS
    <2>1. PICK i \in 1..n : i = j + 1 /\ i - 1 = j
        OBVIOUS
    <2>2. off[j] \in Nat /\ off[i] \in Nat /\ off[i] = off[j] + Len(b[i]) /\ Len(b[i]) \in Nat
        <3>1. b[i] \in Seq(Nat)
            BY <1>2
        <3>2. j \in 0..n /\ i \in 0..n
            BY <2>1
        <3>3. off[j] \in Nat /\ off[i] \in Nat
            BY <1>3, <3>2
        <3>4. off[i] = off[j] + Len(b[i])
            BY <1>3, <2>1
        <3> QED
            BY <3>1, <3>3, <3>4
    <2>3. off[i] <= Len(FlattenSeq(b)) /\ Len(FlattenSeq(b)) \in Nat
        <3>1. i \in 0..Len(b)
            BY <1>2
        <3>2. off[n] \in Nat
            BY <1>3
        <3> QED
            BY <1>1, <1>3, <3>1, <3>2, PlacesOrder
    <2>4. PICK x \in Nat : x = at + off[j]
        BY <2>2
    <2>5. x + Len(b[i]) = at + off[i] /\ x + Len(b[i]) <= end
        <3>1. PICK z \in Nat : z = Len(b[i])
            BY <2>2
        <3>2. PICK w \in Nat : w = Len(FlattenSeq(b))
            BY <2>3
        <3>3. off[i] <= w /\ at + w <= end
            BY <2>3, <3>2
        <3>4. PICK p \in Nat, q \in Nat : p = off[i] /\ q = off[j]
            BY <2>2
        <3>5. p = q + z /\ p <= w /\ x = at + q
            BY <2>2, <2>4, <3>1, <3>3, <3>4
        <3>6. x + z = at + p /\ x + z <= end
            BY <3>3, <3>5
        <3> QED
            BY <3>1, <3>4, <3>6
    <2>6. Reaches(f, start, end, acc[j], x)
        BY <1>5, <2>4
    <2>7. Has(data, x, b[i])
        BY <1>1, <1>2, <2>1, <2>4
    <2>8. Moves(f, data, start, end, acc[j], acc[i], b[i])
        BY <1>2, <2>1
    <2>9. Reaches(f, start, end, acc[i], x + Len(b[i]))
        BY <2>5, <2>6, <2>7, <2>8 DEF Moves
    <2> QED
        BY <2>1, <2>5, <2>9
<1>6. n \in T
    <2> HIDE DEF T
    <2> QED
        BY <1>4, <1>5, SetInduction
<1>7. Reaches(f, start, end, acc[n], at + off[n])
    BY <1>6
<1> QED
    BY <1>2, <1>3, <1>7

\* One item moves the loop.
LEMMA ItemMoves ==
    ASSUME NEW f, NEW kind, NEW data, NEW start \in Nat, NEW end \in Nat,
           Loops(f, kind, data, start, end), NEW list, NEW item, NEW bytes,
           Len(bytes) \in Nat \ {0},
           \A at \in Nat : Has(data, at, bytes)
               => Item(kind, data, at) = Got(item, at + Len(bytes))
    PROVE  Moves(f, data, start, end, list, Add(kind, list, item), bytes)
<1> SUFFICES ASSUME NEW at \in Nat, Reaches(f, start, end, list, at),
                    Has(data, at, bytes), at + Len(bytes) <= end
             PROVE  Reaches(f, start, end, Add(kind, list, item), at + Len(bytes))
    BY DEF Moves
<1>1. PICK next \in Nat : next = at + Len(bytes)
    OBVIOUS
<1>2. at < end /\ at < next
    BY <1>1
<1>3. Item(kind, data, at) = Got(item, next)
    BY <1>1
<1> QED
    BY <1>1, <1>2, <1>3, ReachNext

\* The loop reads its parts, all of them and nothing else.
LEMMA LoopReads ==
    ASSUME NEW kind, NEW data, NEW start \in Nat, NEW list, NEW bytes,
           Has(data, start, bytes),
           \A f : Loops(f, kind, data, start, start + Len(bytes))
               => Moves(f, data, start, start + Len(bytes), <<>>, list, bytes)
    PROVE  Repeat(kind, data, start, start + Len(bytes)) = Got(list, start + Len(bytes))
<1>1. PICK end \in Nat : end = start + Len(bytes)
    BY DEF Has
<1>2. PICK f : /\ Loops(f, kind, data, start, end)
               /\ Repeat(kind, data, start, end) = f[end]
    BY LoopsExist
<1>3. Reaches(f, start, end, <<>>, start)
    BY <1>2, ReachStart
<1>4. Moves(f, data, start, end, <<>>, list, bytes)
    BY <1>1, <1>2
<1>5. end <= end
    OBVIOUS
<1>6. Reaches(f, start, end, list, end)
    BY <1>1, <1>3, <1>4, <1>5 DEF Moves
<1>7. f[end] = Got(list, end)
    BY <1>2, <1>6, ReachEnd
<1> QED
    BY <1>1, <1>2, <1>7

-----------------------------------------------------------------------------
\* The front of a list.
LEMMA Fronts ==
    ASSUME NEW S, NEW list \in Seq(S)
    PROVE  /\ SubSeq(list, 1, 0) = <<>>
           /\ SubSeq(list, 1, Len(list)) = list
           /\ Len(list) \in Nat
           /\ \A i \in Nat : i + 1 <= Len(list)
                  => Append(SubSeq(list, 1, i), list[i + 1]) = SubSeq(list, 1, i + 1)
OBVIOUS

\* A list of items, each of which is read.
LEMMA ListMoves ==
    ASSUME NEW f, NEW kind, kind # "property", NEW data, NEW start \in Nat, NEW end \in Nat,
           Loops(f, kind, data, start, end), NEW S, NEW list \in Seq(S),
           NEW b \in Seq(Seq(Nat)), Len(b) = Len(list),
           \A i \in 1..Len(list) :
               /\ Len(b[i]) > 0
               /\ \A at \in Nat : Has(data, at, b[i])
                     => Item(kind, data, at) = Got(list[i], at + Len(b[i]))
    PROVE  Moves(f, data, start, end, <<>>, list, FlattenSeq(b))
<1> DEFINE acc == [i \in 0..Len(list) |-> SubSeq(list, 1, i)]
<1>1. Len(list) \in Nat /\ acc[0] = <<>> /\ acc[Len(list)] = list
    <2>1. Len(list) \in Nat
        OBVIOUS
    <2>2. acc[0] = SubSeq(list, 1, 0) /\ acc[Len(list)] = SubSeq(list, 1, Len(list))
        BY <2>1
    <2> HIDE DEF acc
    <2> QED
        BY <2>1, <2>2, Fronts
<1>2. ASSUME NEW j \in 1..Len(list)
      PROVE  Moves(f, data, start, end, acc[j - 1], acc[j], b[j])
    <2>1. PICK i \in Nat : i = j - 1 /\ j = i + 1 /\ i + 1 <= Len(list)
        BY <1>1
    <2>2. acc[i] = SubSeq(list, 1, i) /\ acc[j] = SubSeq(list, 1, j)
        <3>1. i \in 0..Len(list) /\ j \in 0..Len(list)
            BY <1>1, <2>1
        <3> QED
            BY <3>1
    <2> HIDE DEF acc
    <2>3. Append(acc[i], list[j]) = acc[j]
        BY <2>1, <2>2, Fronts
    <2>4. Add(kind, acc[i], list[j]) = acc[j]
        BY <2>3 DEF Add
    <2>5. Len(b[j]) \in Nat \ {0}
        OBVIOUS
    <2>6. \A at \in Nat : Has(data, at, b[j])
              => Item(kind, data, at) = Got(list[j], at + Len(b[j]))
        OBVIOUS
    <2>7. Moves(f, data, start, end, acc[i], Add(kind, acc[i], list[j]), b[j])
        BY <2>5, <2>6, ItemMoves
    <2> QED
        BY <2>1, <2>4, <2>7
<1> HIDE DEF acc
<1>3. \A j \in 1..Len(b) : Moves(f, data, start, end, acc[j - 1], acc[j], b[j])
    BY <1>2
<1>4. Moves(f, data, start, end, acc[0], acc[Len(b)], FlattenSeq(b))
    BY <1>3, PartsMove
<1> QED
    BY <1>1, <1>4

\* The greatest of some numbers.
LEMMA Greatest ==
    ASSUME NEW n \in Nat, NEW S \in SUBSET (0..n), S # {}
    PROVE  Max(S) \in S /\ \A x \in S : x <= Max(S)
<1> DEFINE T == {j \in Nat : \A R \in SUBSET (0..j) :
                    R # {} => \E m \in R : \A x \in R : m >= x}
<1>1. 0 \in T
    <2> SUFFICES ASSUME NEW R \in SUBSET (0..0), R # {}
                 PROVE  \E m \in R : \A x \in R : m >= x
        OBVIOUS
    <2>1. PICK m : m \in R
        OBVIOUS
    <2>2. \A x \in R : m >= x
        BY <2>1
    <2> QED
        BY <2>1, <2>2
<1>2. ASSUME NEW j \in Nat, j \in T PROVE j + 1 \in T
    <2> SUFFICES ASSUME NEW R \in SUBSET (0..(j + 1)), R # {}
                 PROVE  \E m \in R : \A x \in R : m >= x
        OBVIOUS
    <2>1. CASE j + 1 \in R
        <3>1. \A x \in R : j + 1 >= x
            OBVIOUS
        <3> QED
            BY <2>1, <3>1
    <2>2. CASE j + 1 \notin R
        <3>1. R \in SUBSET (0..j)
            BY <2>2
        <3> QED
            BY <1>2, <3>1
    <2> QED
        BY <2>1, <2>2
<1>3. n \in T
    <2> HIDE DEF T
    <2> QED
        BY <1>1, <1>2, SetInduction
<1>4. \E m \in S : \A x \in S : m >= x
    BY <1>3
<1>5. Max(S) \in S /\ \A x \in S : Max(S) >= x
    <2> DEFINE P(m) == m \in S /\ \A x \in S : m >= x
    <2>1. \E m : P(m)
        BY <1>4
    <2>2. Max(S) = CHOOSE m : P(m)
        BY DEF Max
    <2> HIDE DEF P
    <2>3. P(CHOOSE m : P(m))
        BY <2>1
    <2> QED
        BY <2>2, <2>3 DEF P
<1> QED
    BY <1>5

\* Properties with one more.
With(props, id, x) == [i \in DOMAIN props \cup {id} |-> IF i = id THEN x ELSE props[i]]

LEMMA PutSingle ==
    ASSUME NEW props, NEW id, NEW val, PropType(id) # "pair"
    PROVE  Put(props, <<id, val>>) = With(props, id, val)
BY DEF Put, With

LEMMA PutFirst ==
    ASSUME NEW props, NEW id, NEW val, PropType(id) = "pair", id \notin DOMAIN props
    PROVE  Put(props, <<id, val>>) = With(props, id, <<val>>)
<1>1. Append(<<>>, val) = <<val>>
    OBVIOUS
<1> QED
    BY <1>1 DEF Put, With

LEMMA PutMore ==
    ASSUME NEW props, NEW id, NEW val, NEW list, PropType(id) = "pair"
    PROVE  Put(With(props, id, list), <<id, val>>) = With(props, id, Append(list, val))
<1> DEFINE w == With(props, id, list)
<1>1. DOMAIN w = DOMAIN props \cup {id} /\ w[id] = list
      /\ \A i \in DOMAIN props : i # id => w[i] = props[i]
    BY DEF With
<1> HIDE DEF w
<1>2. Put(w, <<id, val>>) = [i \in DOMAIN props \cup {id} |->
                                IF i = id THEN Append(list, val) ELSE props[i]]
    BY <1>1 DEF Put
<1> QED
    BY <1>2 DEF With, w

LEMMA EntryMoves ==
    ASSUME NEW f, NEW data, NEW start \in Nat, NEW end \in Nat,
           Loops(f, "property", data, start, end),
           NEW props, NEW id \in 1..255, NEW val, IsValue(PropType(id), val)
    PROVE  Moves(f, data, start, end, props, Put(props, <<id, val>>), EntryBytes(id, val))
<1>1. Len(EntryBytes(id, val)) \in Nat \ {0}
    BY EntrySize
<1>2. \A at \in Nat : Has(data, at, EntryBytes(id, val))
          => Item("property", data, at) = Got(<<id, val>>, at + Len(EntryBytes(id, val)))
    BY EntryRead
<1>3. Add("property", props, <<id, val>>) = Put(props, <<id, val>>)
    BY DEF Add
<1>4. PICK bytes : bytes = EntryBytes(id, val)
    OBVIOUS
<1>5. PICK item : item = <<id, val>>
    OBVIOUS
<1>6. Moves(f, data, start, end, props, Add("property", props, item), bytes)
    BY <1>1, <1>2, <1>4, <1>5, ItemMoves
<1> QED
    BY <1>3, <1>4, <1>5, <1>6

\* The values of a property that may be repeated.
LEMMA PairsMove ==
    ASSUME NEW f, NEW data, NEW start \in Nat, NEW end \in Nat,
           Loops(f, "property", data, start, end),
           NEW props, NEW id \in 1..255, PropType(id) = "pair", id \notin DOMAIN props,
           NEW S, NEW list \in Seq(S), list # <<>>,
           \A i \in 1..Len(list) : IsValue("pair", list[i]),
           NEW b, b = [i \in DOMAIN list |-> EntryBytes(id, list[i])]
    PROVE  Moves(f, data, start, end, props, With(props, id, list), FlattenSeq(b))
<1> DEFINE acc == [i \in 0..Len(list) |->
                      IF i = 0 THEN props ELSE With(props, id, SubSeq(list, 1, i))]
<1>1. Len(list) \in Nat /\ Len(list) > 0 /\ DOMAIN list = 1..Len(list)
    OBVIOUS
<1>2. PICK n \in Nat : n = Len(list) /\ n > 0
    BY <1>1
<1>3. b \in Seq(Seq(Nat)) /\ Len(b) = n /\ \A i \in 1..n : b[i] = EntryBytes(id, list[i])
    <2>1. \A i \in 1..n : EntryBytes(id, list[i]) \in Seq(Nat)
        BY <1>2, EntrySize
    <2> QED
        BY <1>1, <1>2, <2>1
<1>4. acc[0] = props /\ acc[n] = With(props, id, list)
    <2>1. SubSeq(list, 1, n) = list
        BY <1>2, Fronts
    <2>2. 0 \in 0..Len(list) /\ n \in 0..Len(list) /\ n # 0
        BY <1>2
    <2> QED
        BY <2>1, <2>2
<1>5. ASSUME NEW j \in 1..n
      PROVE  Moves(f, data, start, end, acc[j - 1], acc[j], b[j])
    <2>1. PICK i \in Nat : i = j - 1 /\ j = i + 1 /\ i + 1 <= Len(list)
        BY <1>2
    <2>2. acc[i] = (IF i = 0 THEN props ELSE With(props, id, SubSeq(list, 1, i)))
          /\ acc[j] = With(props, id, SubSeq(list, 1, j))
        <3>1. i \in 0..Len(list) /\ j \in 0..Len(list) /\ j # 0
            BY <1>2, <2>1
        <3> QED
            BY <3>1
    <2> HIDE DEF acc
    <2>3. Append(SubSeq(list, 1, i), list[j]) = SubSeq(list, 1, j)
        BY <2>1, Fronts
    <2>4. Put(acc[i], <<id, list[j]>>) = acc[j]
        <3>1. CASE i = 0
            <4>1. SubSeq(list, 1, j) = <<list[j]>>
                <5>1. SubSeq(list, 1, i) = <<>>
                    BY <3>1, Fronts
                <5>2. Append(<<>>, list[j]) = <<list[j]>>
                    OBVIOUS
                <5> QED
                    BY <2>3, <5>1, <5>2
            <4>2. acc[i] = props
                BY <2>2, <3>1
            <4>3. Put(props, <<id, list[j]>>) = With(props, id, <<list[j]>>)
                BY PutFirst
            <4> QED
                BY <2>2, <4>1, <4>2, <4>3
        <3>2. CASE i # 0
            <4>1. acc[i] = With(props, id, SubSeq(list, 1, i))
                BY <2>2, <3>2
            <4>2. PICK front, x : front = SubSeq(list, 1, i) /\ x = list[j]
                OBVIOUS
            <4>3. Put(With(props, id, front), <<id, x>>) = With(props, id, Append(front, x))
                BY PutMore
            <4> QED
                BY <2>2, <2>3, <4>1, <4>2, <4>3
        <3> QED
            BY <3>1, <3>2
    <2>5. IsValue(PropType(id), list[j])
        BY <1>2
    <2>6. Moves(f, data, start, end, acc[i], Put(acc[i], <<id, list[j]>>),
                EntryBytes(id, list[j]))
        BY <2>5, EntryMoves
    <2> QED
        BY <1>3, <2>1, <2>4, <2>6
<1> HIDE DEF acc
<1>6. \A j \in 1..Len(b) : Moves(f, data, start, end, acc[j - 1], acc[j], b[j])
    BY <1>3, <1>5
<1>7. Moves(f, data, start, end, acc[0], acc[Len(b)], FlattenSeq(b))
    BY <1>3, <1>6, PartsMove
<1> QED
    BY <1>3, <1>4, <1>7

\* The properties up to an identifier.
Upto(props, j) == [id \in DOMAIN props \cap (1..j) |-> props[id]]

LEMMA UptoNext ==
    ASSUME NEW props, NEW i \in Nat, NEW id, id = i + 1
    PROVE  /\ id \notin DOMAIN Upto(props, i)
           /\ id \in DOMAIN props => Upto(props, id) = With(Upto(props, i), id, props[id])
           /\ id \notin DOMAIN props => Upto(props, id) = Upto(props, i)
<1>1. 1..id = (1..i) \cup {id} /\ id \notin 1..i
    OBVIOUS
<1>2. DOMAIN Upto(props, i) = DOMAIN props \cap (1..i)
      /\ \A j \in DOMAIN props \cap (1..i) : Upto(props, i)[j] = props[j]
    BY DEF Upto
<1>3. id \notin DOMAIN Upto(props, i)
    BY <1>1, <1>2
<1>4. ASSUME id \in DOMAIN props
      PROVE  Upto(props, id) = With(Upto(props, i), id, props[id])
    <2>1. DOMAIN props \cap (1..id) = DOMAIN Upto(props, i) \cup {id}
        BY <1>1, <1>2, <1>4
    <2>2. With(Upto(props, i), id, props[id])
            = [j \in DOMAIN props \cap (1..id) |-> IF j = id THEN props[id] ELSE Upto(props, i)[j]]
        BY <2>1 DEF With
    <2>3. \A j \in DOMAIN props \cap (1..id) :
             (IF j = id THEN props[id] ELSE Upto(props, i)[j]) = props[j]
        BY <1>1, <1>2
    <2> QED
        BY <2>2, <2>3 DEF Upto
<1>5. ASSUME id \notin DOMAIN props PROVE Upto(props, id) = Upto(props, i)
    <2>1. DOMAIN props \cap (1..id) = DOMAIN props \cap (1..i)
        BY <1>1, <1>5
    <2> QED
        BY <2>1 DEF Upto
<1> QED
    BY <1>3, <1>4, <1>5

\* The entries of one identifier.
LEMMA PropMoves ==
    ASSUME NEW f, NEW data, NEW start \in Nat, NEW end \in Nat,
           Loops(f, "property", data, start, end),
           NEW props, IsProps(props), NEW i \in Nat, NEW id \in 1..255, id = i + 1
    PROVE  /\ Moves(f, data, start, end, Upto(props, i), Upto(props, id), PropBytes(props, id))
           /\ PropBytes(props, id) \in Seq(Nat)
<1>1. /\ id \notin DOMAIN Upto(props, i)
      /\ id \in DOMAIN props => Upto(props, id) = With(Upto(props, i), id, props[id])
      /\ id \notin DOMAIN props => Upto(props, id) = Upto(props, i)
    BY UptoNext
<1> DEFINE P == Upto(props, i)
<1> HIDE DEF P
<1>2. CASE id \notin DOMAIN props
    <2>1. PropBytes(props, id) = <<>> /\ Upto(props, id) = P
        BY <1>1, <1>2 DEF PropBytes, P
    <2>2. ASSUME NEW at \in Nat, Reaches(f, start, end, P, at)
          PROVE  Reaches(f, start, end, P, at + Len(<<>>))
        <3>1. at + Len(<<>>) = at
            OBVIOUS
        <3> QED
            BY <2>2, <3>1
    <2>3. Moves(f, data, start, end, P, P, <<>>)
        BY <2>2 DEF Moves
    <2>4. <<>> \in Seq(Nat)
        OBVIOUS
    <2> QED
        BY <2>1, <2>3, <2>4 DEF P
<1>3. CASE id \in DOMAIN props /\ PropType(id) # "pair"
    <2>1. IsValue(PropType(id), props[id])
        BY <1>3 DEF IsProps
    <2>2. PropBytes(props, id) = EntryBytes(id, props[id])
        BY <1>3 DEF PropBytes
    <2>3. Put(P, <<id, props[id]>>) = Upto(props, id)
        BY <1>1, <1>3, PutSingle DEF P
    <2>4. Moves(f, data, start, end, P, Put(P, <<id, props[id]>>), EntryBytes(id, props[id]))
        BY <2>1, EntryMoves
    <2>5. EntryBytes(id, props[id]) \in Seq(Nat)
        BY <2>1, EntrySize
    <2> QED
        BY <2>2, <2>3, <2>4, <2>5 DEF P
<1>4. CASE id \in DOMAIN props /\ PropType(id) = "pair"
    <2>1. PICK list : list = props[id]
        OBVIOUS
    <2>2. /\ Len(list) \in Nat \ {0}
          /\ list = [k \in 1..Len(list) |-> list[k]]
          /\ \A k \in 1..Len(list) : IsValue("pair", list[k])
        BY <1>4, <2>1 DEF IsProps
    <2>3. PICK n \in Nat : n = Len(list) /\ n # 0
        BY <2>2
    <2>4. list \in Seq({list[k] : k \in 1..n}) /\ DOMAIN list = 1..n
        <3>1. list = [k \in 1..n |-> list[k]]
            BY <2>2, <2>3
        <3>2. list \in [1..n -> {list[k] : k \in 1..n}]
            BY <3>1
        <3> QED
            BY <3>2
    <2>5. list # <<>>
        BY <2>3
    <2>6. PICK b : b = [k \in DOMAIN list |-> EntryBytes(id, list[k])]
        OBVIOUS
    <2>7. PropBytes(props, id) = FlattenSeq(b)
        BY <1>4, <2>1, <2>6 DEF PropBytes
    <2>8. id \notin DOMAIN P
        BY <1>1 DEF P
    <2>9. Moves(f, data, start, end, P, With(P, id, list), FlattenSeq(b))
        BY <1>4, <2>2, <2>4, <2>5, <2>6, <2>8, PairsMove
    <2>10. Upto(props, id) = With(P, id, list)
        BY <1>1, <1>4, <2>1 DEF P
    <2>11. b \in Seq(Seq(Nat))
        <3>1. \A k \in 1..n : EntryBytes(id, list[k]) \in Seq(Nat)
            <4> TAKE k \in 1..n
            <4>1. IsValue(PropType(id), list[k])
                BY <1>4, <2>2, <2>3
            <4> QED
                BY <4>1, EntrySize
        <3> QED
            BY <2>3, <2>4, <2>6, <3>1
    <2>12. FlattenSeq(b) \in Seq(Nat)
        BY <2>11, SumsExist, FlattenIsSum
    <2> QED
        BY <2>7, <2>9, <2>10, <2>12 DEF P
<1> QED
    BY <1>2, <1>3, <1>4

\* The entries of all identifiers.
LEMMA BodyMoves ==
    ASSUME NEW f, NEW data, NEW start \in Nat, NEW end \in Nat,
           Loops(f, "property", data, start, end),
           NEW props, IsProps(props), NEW n \in 0..255, DOMAIN props \subseteq 1..n,
           NEW b, b = [id \in 1..n |-> PropBytes(props, id)]
    PROVE  Moves(f, data, start, end, <<>>, props, FlattenSeq(b))
<1> DEFINE acc == [j \in 0..n |-> Upto(props, j)]
<1>1. n \in Nat /\ 0 \in 0..n /\ n \in 0..n
    OBVIOUS
<1>2. ASSUME NEW id \in 1..n
      PROVE  /\ id - 1 \in Nat /\ id \in 1..255 /\ id = (id - 1) + 1
             /\ id - 1 \in 0..n /\ id \in 0..n
    OBVIOUS
<1>3. b \in Seq(Seq(Nat)) /\ Len(b) = n /\ \A id \in 1..n : b[id] = PropBytes(props, id)
    <2>1. \A id \in 1..n : PropBytes(props, id) \in Seq(Nat)
        <3> TAKE id \in 1..n
        <3>1. PICK i \in Nat, d \in 1..255 : i = id - 1 /\ d = id /\ d = i + 1
            BY <1>2
        <3>2. PropBytes(props, d) \in Seq(Nat)
            BY <3>1, PropMoves
        <3> QED
            BY <3>1, <3>2
    <2> QED
        BY <1>1, <2>1
<1>4. ASSUME NEW j \in 1..Len(b)
      PROVE  Moves(f, data, start, end, acc[j - 1], acc[j], b[j])
    <2>1. PICK i \in Nat, id \in 1..255 : i = j - 1 /\ id = j /\ id = i + 1
        BY <1>2, <1>3
    <2>2. acc[i] = Upto(props, i) /\ acc[j] = Upto(props, j)
        BY <1>2, <1>3, <2>1
    <2>3. Moves(f, data, start, end, Upto(props, i), Upto(props, id), PropBytes(props, id))
        BY <2>1, PropMoves
    <2> HIDE DEF acc
    <2>4. b[j] = PropBytes(props, id)
        BY <1>3, <2>1
    <2> QED
        BY <2>1, <2>2, <2>3, <2>4
<1>5. acc[0] = <<>>
    <2>1. DOMAIN props \cap (1..0) = {}
        OBVIOUS
    <2>2. Upto(props, 0) = [id \in {} |-> props[id]]
        BY <2>1 DEF Upto
    <2>3. [id \in {} |-> props[id]] = <<>>
        OBVIOUS
    <2> QED
        BY <1>1, <2>2, <2>3
<1>6. acc[n] = props
    <2>1. DOMAIN props \cap (1..n) = DOMAIN props
        OBVIOUS
    <2>2. props = [id \in DOMAIN props |-> props[id]]
        BY DEF IsProps
    <2>3. Upto(props, n) = props
        BY <2>1, <2>2 DEF Upto
    <2> QED
        BY <1>1, <2>3
<1> HIDE DEF acc
<1>7. Moves(f, data, start, end, acc[0], acc[Len(b)], FlattenSeq(b))
    BY <1>3, <1>4, PartsMove
<1> QED
    BY <1>3, <1>5, <1>6, <1>7

\* The body of some properties.
LEMMA BodyBytes ==
    ASSUME NEW props, IsProps(props), NEW n \in 0..255,
           NEW b, b = [id \in 1..n |-> PropBytes(props, id)]
    PROVE  FlattenSeq(b) \in Seq(Nat)
<1>1. \A id \in 1..n : PropBytes(props, id) \in Seq(Nat)
    <2> TAKE id \in 1..n
    <2>1. PICK f : Loops(f, "property", <<>>, 0, 0)
        BY LoopsExist
    <2>2. id - 1 \in Nat /\ id \in 1..255 /\ id = (id - 1) + 1
        OBVIOUS
    <2> QED
        BY <2>1, <2>2, PropMoves
<1>2. b \in Seq(Seq(Nat))
    BY <1>1
<1> QED
    BY <1>2, SumsExist, FlattenIsSum

\* Properties as bytes.
LEMMA PropsLayout ==
    ASSUME NEW props, IsProps(props)
    PROVE  \E body \in Seq(Nat) :
              /\ EncodeProps(props) = EncodeVarint[Len(body)] \o body
              /\ \A f, data : \A start, end \in Nat :
                    Loops(f, "property", data, start, end)
                        => Moves(f, data, start, end, <<>>, props, body)
<1>1. CASE DOMAIN props = {}
    <2>1. EncodeProps(props) = <<0>>
        BY <1>1 DEF EncodeProps
    <2>2. EncodeVarint[0] = <<0>>
        <3>1. EncodeVarint[0] = Digits(EncodeVarint, 0)
            BY Encoding
        <3>2. 0 < Base
            BY BaseAssumption
        <3> QED
            BY <3>1, <3>2 DEF Digits
    <2>3. <<0>> \o <<>> = <<0>> /\ Len(<<>>) = 0 /\ <<>> \in Seq(Nat)
        OBVIOUS
    <2>4. PICK b : b = [id \in 1..0 |-> PropBytes(props, id)]
        OBVIOUS
    <2>5. b = <<>>
        BY <2>4
    <2>6. FlattenSeq(b) = <<>>
        BY <2>5, FlattenEmpty
    <2>7. \A f, data : \A start, end \in Nat :
                Loops(f, "property", data, start, end)
                    => Moves(f, data, start, end, <<>>, props, <<>>)
        <3>1. 0 \in 0..255 /\ DOMAIN props \subseteq 1..0
            BY <1>1
        <3> QED
            BY <2>4, <2>6, <3>1, BodyMoves
    <2> QED
        BY <2>1, <2>2, <2>3, <2>7
<1>2. CASE DOMAIN props # {}
    <2>1. DOMAIN props \in SUBSET (0..255) /\ DOMAIN props \subseteq 1..255
        <3>1. DOMAIN props \subseteq 1..255
            BY Zenon DEF IsProps
        <3>2. 1..255 \subseteq 0..255
            OBVIOUS
        <3> QED
            BY <3>1, <3>2, Zenon
    <2>2. PICK n : n = Max(DOMAIN props)
        OBVIOUS
    <2>3. n \in DOMAIN props /\ \A x \in DOMAIN props : x <= n
        BY <1>2, <2>1, <2>2, Greatest
    <2>4. n \in 0..255 /\ DOMAIN props \subseteq 1..n
        BY <2>1, <2>3
    <2>5. PICK b : b = [id \in 1..n |-> PropBytes(props, id)]
        OBVIOUS
    <2>6. EncodeProps(props) = EncodeVarint[Len(FlattenSeq(b))] \o FlattenSeq(b)
        BY <1>2, <2>2, <2>5, Zenon DEF EncodeProps
    <2>7. FlattenSeq(b) \in Seq(Nat)
        BY <2>4, <2>5, BodyBytes
    <2>8. \A f, data : \A start, end \in Nat :
                Loops(f, "property", data, start, end)
                    => Moves(f, data, start, end, <<>>, props, FlattenSeq(b))
        BY <2>4, <2>5, BodyMoves
    <2> QED
        BY <2>6, <2>7, <2>8
<1> QED
    BY <1>1, <1>2

LEMMA PropsSize ==
    ASSUME NEW props, IsProps(props)
    PROVE  EncodeProps(props) \in Seq(Nat) /\ Len(EncodeProps(props)) \in Nat \ {0}
<1>1. PICK body \in Seq(Nat) : EncodeProps(props) = EncodeVarint[Len(body)] \o body
    BY PropsLayout
<1>2. Len(body) \in Nat
    OBVIOUS
<1>3. PICK e \in Seq(Nat) : e = EncodeVarint[Len(body)] /\ Len(e) >= 1
    BY <1>2, Encoding, LengthOfDigits
<1>4. e \o body \in Seq(Nat) /\ Len(e \o body) = Len(e) + Len(body) /\ Len(e) \in Nat
    BY <1>3, Joined
<1> QED
    BY <1>1, <1>2, <1>3, <1>4

\* decode_properties reads what encode_properties wrote: all properties,
\* lists of them included, wherever they stand in the data.
THEOREM PropsRead ==
    ASSUME NEW props, IsProps(props), NEW data, NEW at, Has(data, at, EncodeProps(props)),
           Len(EncodeVarint[Len(data)]) <= 4
    PROVE  DecodeProps(data, at) = Got(props, at + Len(EncodeProps(props)))
<1>1. PICK body \in Seq(Nat) :
              /\ EncodeProps(props) = EncodeVarint[Len(body)] \o body
              /\ \A f : \A start, end \in Nat :
                    Loops(f, "property", data, start, end)
                        => Moves(f, data, start, end, <<>>, props, body)
    BY PropsLayout
<1>2. PICK n \in Nat : n = Len(body)
    OBVIOUS
<1>3. PICK e \in Seq(Nat) : e = EncodeVarint[n] /\ Len(e) \in Nat
    BY Encoding
<1>4. Has(data, at, e) /\ Has(data, at + Len(e), body)
    BY <1>1, <1>2, <1>3, HasParts
<1>5. PICK p \in Nat : p = at + Len(e)
    BY <1>3, <1>4 DEF Has
<1>6. Len(data) \in Nat /\ n <= Len(data)
    <2>1. data \in Seq(Nat) /\ p + Len(body) <= Len(data)
        BY <1>4, <1>5 DEF Has
    <2> QED
        BY <1>2, <2>1
<1>7. Len(EncodeVarint[n]) <= 4
    <2>1. Len(EncodeVarint[n]) \in Nat /\ Len(EncodeVarint[Len(data)]) \in Nat
        BY <1>6, LengthOfDigits
    <2>2. Len(EncodeVarint[n]) <= Len(EncodeVarint[Len(data)])
        BY <1>6, Longer
    <2> QED
        BY <2>1, <2>2
<1>8. DecodeVarint(data, at) = Got(n, p)
    BY <1>3, <1>4, <1>5, <1>7, VarintRead
<1>9. Repeat("property", data, p, p + n) = Got(props, p + n)
    <2>1. Has(data, p, body)
        BY <1>4, <1>5
    <2>2. p + Len(body) \in Nat
        BY <1>2
    <2>3. \A f : Loops(f, "property", data, p, p + Len(body))
                     => Moves(f, data, p, p + Len(body), <<>>, props, body)
        BY <1>1, <2>2
    <2> QED
        BY <1>2, <2>1, <2>3, LoopReads
<1>10. DecodeProps(data, at) = Got(props, p + n)
    BY <1>8, <1>9 DEF DecodeProps, Then, Got
<1>11. p + n = at + Len(EncodeProps(props))
    <2>1. Len(e \o body) = Len(e) + Len(body)
        BY <1>3, Joined
    <2>2. at \in Nat
        BY <1>4 DEF Has
    <2> QED
        BY <1>1, <1>2, <1>3, <1>5, <2>1, <2>2
<1> QED
    BY <1>10, <1>11

-----------------------------------------------------------------------------
(***************************************************************************)
(* What the fields of a packet are read from.                              *)
(***************************************************************************)
\* The length of a packet can be written.
Small(data) == Len(EncodeVarint[Len(data)]) <= 4

\* The bytes hold a value; the second one reads up to the end.
Holds(type, val, bytes) ==
    /\ bytes \in Seq(Nat)
    /\ \A data, at : Has(data, at, bytes) /\ Small(data)
          => DecodeField(type, data, at) = Got(val, at + Len(bytes))

HoldsRest(type, val, bytes) ==
    /\ bytes \in Seq(Nat)
    /\ \A data, at : Has(data, at, bytes) /\ at + Len(bytes) = Len(data)
          => DecodeField(type, data, at) = Got(val, at + Len(bytes))

\* The bytes hold fields, which take a record to the next one.
Holding(layout, record, next, bytes) ==
    /\ layout \in Layouts /\ bytes \in Seq(Nat)
    /\ \A data, at : Has(data, at, bytes) /\ Small(data)
          => Fields(layout, data, at, record) = Got(next, at + Len(bytes))

HoldingRest(layout, record, next, bytes) ==
    /\ layout \in Layouts /\ bytes \in Seq(Nat)
    /\ \A data, at : Has(data, at, bytes) /\ Small(data) /\ at + Len(bytes) = Len(data)
          => Fields(layout, data, at, record) = Got(next, at + Len(bytes))

LEMMA HoldingAll ==
    ASSUME NEW layout, NEW record, NEW next, NEW bytes, Holding(layout, record, next, bytes)
    PROVE  HoldingRest(layout, record, next, bytes)
BY Zenon DEF Holding, HoldingRest

LEMMA HoldingNone ==
    ASSUME NEW record
    PROVE  Holding(<<>>, record, record, <<>>)
<1>1. <<>> \in Layouts /\ <<>> \in Seq(Nat)
    BY DEF Layouts
<1>2. ASSUME NEW data, NEW at, Has(data, at, <<>>)
      PROVE  Fields(<<>>, data, at, record) = Got(record, at + Len(<<>>))
    <2>1. at + Len(<<>>) = at
        BY <1>2 DEF Has
    <2> QED
        BY <2>1, FieldsNone
<1> QED
    BY <1>1, <1>2, Zenon DEF Holding

LEMMA HoldingOne ==
    ASSUME NEW name \in FieldNames, NEW type \in FieldTypes, NEW val, NEW bytes,
           Holds(type, val, bytes), NEW record
    PROVE  Holding(<<<<name, type>>>>, record, [record EXCEPT ![name] = val], bytes)
<1>1. ASSUME NEW data, NEW at, Has(data, at, bytes), Small(data)
      PROVE  Fields(<<<<name, type>>>>, data, at, record)
                 = Got([record EXCEPT ![name] = val], at + Len(bytes))
    <2>1. DecodeField(type, data, at) = Got(val, at + Len(bytes))
        BY <1>1, Zenon DEF Holds
    <2> QED
        BY <2>1, FieldsOne
<1>2. <<<<name, type>>>> \in Layouts /\ bytes \in Seq(Nat)
    BY OneField DEF Holds
<1> QED
    BY <1>1, <1>2, Zenon DEF Holding

LEMMA HoldingLast ==
    ASSUME NEW name \in FieldNames, NEW type \in FieldTypes, NEW val, NEW bytes,
           HoldsRest(type, val, bytes), NEW record
    PROVE  HoldingRest(<<<<name, type>>>>, record, [record EXCEPT ![name] = val], bytes)
<1>1. ASSUME NEW data, NEW at, Has(data, at, bytes), at + Len(bytes) = Len(data)
      PROVE  Fields(<<<<name, type>>>>, data, at, record)
                 = Got([record EXCEPT ![name] = val], at + Len(bytes))
    <2>1. DecodeField(type, data, at) = Got(val, at + Len(bytes))
        BY <1>1, Zenon DEF HoldsRest
    <2> QED
        BY <2>1, FieldsOne
<1>2. <<<<name, type>>>> \in Layouts /\ bytes \in Seq(Nat)
    BY OneField DEF HoldsRest
<1> QED
    BY <1>1, <1>2, Zenon DEF HoldingRest

\* One part of a packet after another.
LEMMA PartsHeld ==
    ASSUME NEW a \in Layouts, NEW b \in Layouts, NEW x \in Seq(Nat), NEW y \in Seq(Nat),
           NEW record, NEW next, NEW data, NEW at, Has(data, at, x \o y),
           Fields(a, data, at, record) = Got(next, at + Len(x))
    PROVE  /\ Fields(a \o b, data, at, record) = Fields(b, data, at + Len(x), next)
           /\ Has(data, at, x) /\ Has(data, at + Len(x), y)
           /\ (at + Len(x)) + Len(y) = at + Len(x \o y)
<1>1. Has(data, at, x) /\ Has(data, at + Len(x), y)
    BY HasParts
<1>2. Fields(a \o b, data, at, record) = Fields(b, data, at + Len(x), next)
    BY FieldsConcat
<1>3. (at + Len(x)) + Len(y) = at + Len(x \o y)
    <2>1. at \in Nat
        BY DEF Has
    <2>2. Len(x) \in Nat /\ Len(y) \in Nat /\ Len(x \o y) = Len(x) + Len(y)
        BY Joined
    <2> QED
        BY <2>1, <2>2
<1> QED
    BY <1>1, <1>2, <1>3

LEMMA HoldingConcat ==
    ASSUME NEW a, NEW b, NEW record, NEW next, NEW last, NEW x, NEW y,
           Holding(a, record, next, x), Holding(b, next, last, y)
    PROVE  Holding(a \o b, record, last, x \o y)
<1>1. a \in Layouts /\ b \in Layouts /\ x \in Seq(Nat) /\ y \in Seq(Nat)
    BY DEF Holding
<1>2. a \o b \in Layouts /\ x \o y \in Seq(Nat)
    BY <1>1 DEF Layouts
<1>3. ASSUME NEW data, NEW at, Has(data, at, x \o y), Small(data)
      PROVE  Fields(a \o b, data, at, record) = Got(last, at + Len(x \o y))
    <2>1. Has(data, at, x)
        BY <1>1, <1>3, HasParts
    <2>2. Fields(a, data, at, record) = Got(next, at + Len(x))
        BY <1>3, <2>1, Zenon DEF Holding
    <2>3. /\ Fields(a \o b, data, at, record) = Fields(b, data, at + Len(x), next)
          /\ Has(data, at + Len(x), y)
          /\ (at + Len(x)) + Len(y) = at + Len(x \o y)
        BY <1>1, <1>3, <2>2, PartsHeld
    <2>4. Fields(b, data, at + Len(x), next) = Got(last, (at + Len(x)) + Len(y))
        BY <1>3, <2>3, Zenon DEF Holding
    <2> QED
        BY <2>3, <2>4, Zenon
<1> QED
    BY <1>2, <1>3, Zenon DEF Holding

LEMMA HoldingThenRest ==
    ASSUME NEW a, NEW b, NEW record, NEW next, NEW last, NEW x, NEW y,
           Holding(a, record, next, x), HoldingRest(b, next, last, y)
    PROVE  HoldingRest(a \o b, record, last, x \o y)
<1>1. a \in Layouts /\ b \in Layouts /\ x \in Seq(Nat) /\ y \in Seq(Nat)
    BY DEF Holding, HoldingRest
<1>2. a \o b \in Layouts /\ x \o y \in Seq(Nat)
    BY <1>1 DEF Layouts
<1>3. ASSUME NEW data, NEW at, Has(data, at, x \o y), Small(data),
             at + Len(x \o y) = Len(data)
      PROVE  Fields(a \o b, data, at, record) = Got(last, at + Len(x \o y))
    <2>1. Has(data, at, x)
        BY <1>1, <1>3, HasParts
    <2>2. Fields(a, data, at, record) = Got(next, at + Len(x))
        BY <1>3, <2>1, Zenon DEF Holding
    <2>3. /\ Fields(a \o b, data, at, record) = Fields(b, data, at + Len(x), next)
          /\ Has(data, at + Len(x), y)
          /\ (at + Len(x)) + Len(y) = at + Len(x \o y)
        BY <1>1, <1>3, <2>2, PartsHeld
    <2>4. Fields(b, data, at + Len(x), next) = Got(last, (at + Len(x)) + Len(y))
        BY <1>3, <2>3, Zenon DEF HoldingRest
    <2> QED
        BY <2>3, <2>4, Zenon
<1> QED
    BY <1>2, <1>3, Zenon DEF HoldingRest

\* A part that may be left out.
LEMMA HoldingWhen ==
    ASSUME NEW test \in BOOLEAN, NEW layout, NEW record, NEW next, NEW bytes,
           test => Holding(layout, record, next, bytes), ~test => next = record
    PROVE  Holding(When(test, layout), record, next, When(test, bytes))
BY HoldingNone DEF When

-----------------------------------------------------------------------------
LEMMA ByteHeld ==
    ASSUME NEW n \in Nat
    PROVE  Holds("byte", n, <<n>>)
<1>1. <<n>> \in Seq(Nat) /\ Len(<<n>>) = 1
    OBVIOUS
<1>2. \A data, at : DecodeField("byte", data, at) = DecodeByte(data, at)
    BY DEF DecodeField, DecodeValue
<1>3. ASSUME NEW data, NEW at, Has(data, at, <<n>>)
      PROVE  DecodeField("byte", data, at) = Got(n, at + Len(<<n>>))
    BY <1>1, <1>2, <1>3, ByteRead
<1> QED
    BY <1>1, <1>3, Zenon DEF Holds

LEMMA WordHeld ==
    ASSUME NEW n \in Nat
    PROVE  Holds("u16", n, Word(n))
<1>1. Word(n) \in Seq(Nat) /\ Len(Word(n)) = 2
    BY WordBytes
<1>2. \A data, at : DecodeField("u16", data, at) = DecodeWord(data, at)
    BY DEF DecodeField, DecodeValue
<1>3. ASSUME NEW data, NEW at, Has(data, at, Word(n))
      PROVE  DecodeField("u16", data, at) = Got(n, at + Len(Word(n)))
    BY <1>1, <1>2, <1>3, WordRead
<1> QED
    BY <1>1, <1>3, Zenon DEF Holds

LEMMA TextHeld ==
    ASSUME NEW s \in Seq(Nat)
    PROVE  Holds("text", s, EncodeText(s))
<1>1. EncodeText(s) \in Seq(Nat)
    BY TextBytes
<1>2. \A data, at : DecodeField("text", data, at) = DecodeText(data, at)
    BY DEF DecodeField, DecodeValue
<1>3. ASSUME NEW data, NEW at, Has(data, at, EncodeText(s))
      PROVE  DecodeField("text", data, at) = Got(s, at + Len(EncodeText(s)))
    BY <1>2, <1>3, TextRead
<1> QED
    BY <1>1, <1>3, Zenon DEF Holds

LEMMA PropsHeld ==
    ASSUME NEW props, IsProps(props)
    PROVE  Holds("props", props, EncodeProps(props))
<1>1. EncodeProps(props) \in Seq(Nat)
    BY PropsSize
<1>2. \A data, at : DecodeField("props", data, at) = DecodeProps(data, at)
    BY DEF DecodeField
<1>3. ASSUME NEW data, NEW at, Has(data, at, EncodeProps(props)), Small(data)
      PROVE  DecodeField("props", data, at) = Got(props, at + Len(EncodeProps(props)))
    BY <1>2, <1>3, PropsRead DEF Small
<1> QED
    BY <1>1, <1>3, Zenon DEF Holds

LEMMA RestHeld ==
    ASSUME NEW s \in Seq(Nat)
    PROVE  HoldsRest("rest", s, s)
<1>1. ASSUME NEW data, NEW at, Has(data, at, s), at + Len(s) = Len(data)
      PROVE  DecodeField("rest", data, at) = Got(s, at + Len(s))
    <2>1. SubSeq(data, at + 1, at + Len(s)) = s
        BY <1>1, HasCut
    <2>2. DecodeField("rest", data, at) = Got(SubSeq(data, at + 1, Len(data)), Len(data))
        BY DEF DecodeField, DecodeValue
    <2> QED
        BY <1>1, <2>1, <2>2
<1> QED
    BY <1>1, Zenon DEF HoldsRest

\* Lists up to the end.
LEMMA ListHeld ==
    ASSUME NEW kind \in {"filter", "subscription"}, NEW S, NEW list \in Seq(S),
           NEW b \in Seq(Seq(Nat)), Len(b) = Len(list),
           \A i \in 1..Len(list) :
               /\ Len(b[i]) > 0
               /\ \A data : \A at \in Nat : Has(data, at, b[i])
                     => Item(kind, data, at) = Got(list[i], at + Len(b[i]))
    PROVE  HoldsRest(kind, list, FlattenSeq(b))
<1>1. FlattenSeq(b) \in Seq(Nat)
    BY SumsExist, FlattenIsSum
<1>2. ASSUME NEW data, NEW at, Has(data, at, FlattenSeq(b)),
             at + Len(FlattenSeq(b)) = Len(data)
      PROVE  DecodeField(kind, data, at) = Got(list, at + Len(FlattenSeq(b)))
    <2>1. PICK bytes \in Seq(Nat) : bytes = FlattenSeq(b)
        BY <1>1
    <2>2. at \in Nat /\ at + Len(bytes) \in Nat
        BY <1>2, <2>1 DEF Has
    <2>3. \A f : Loops(f, kind, data, at, at + Len(bytes))
                     => Moves(f, data, at, at + Len(bytes), <<>>, list, FlattenSeq(b))
        <3>1. kind # "property"
            OBVIOUS
        <3>2. \A i \in 1..Len(list) :
                 /\ Len(b[i]) > 0
                 /\ \A p \in Nat : Has(data, p, b[i])
                       => Item(kind, data, p) = Got(list[i], p + Len(b[i]))
            OBVIOUS
        <3> QED
            BY <2>2, <3>1, <3>2, ListMoves
    <2>4. Repeat(kind, data, at, at + Len(bytes)) = Got(list, at + Len(bytes))
        BY <1>2, <2>1, <2>2, <2>3, LoopReads
    <2>5. DecodeField(kind, data, at) = Repeat(kind, data, at, Len(data))
        BY DEF DecodeField
    <2> QED
        BY <1>2, <2>1, <2>4, <2>5
<1> QED
    BY <1>1, <1>2, Zenon DEF HoldsRest

LEMMA Names ==
    /\ "name" \in FieldNames /\ "level" \in FieldNames /\ "flags" \in FieldNames
    /\ "keepalive" \in FieldNames /\ "props" \in FieldNames /\ "cid" \in FieldNames
    /\ "willProps" \in FieldNames /\ "willTopic" \in FieldNames
    /\ "willPayload" \in FieldNames /\ "username" \in FieldNames
    /\ "password" \in FieldNames /\ "topic" \in FieldNames /\ "id" \in FieldNames
    /\ "payload" \in FieldNames /\ "filters" \in FieldNames /\ "rc" \in FieldNames
    /\ "byte" \in FieldTypes /\ "u16" \in FieldTypes /\ "text" \in FieldTypes
    /\ "props" \in FieldTypes /\ "rest" \in FieldTypes
    /\ "filter" \in FieldTypes /\ "subscription" \in FieldTypes
BY DEF FieldNames, FieldTypes

PublishFlags(pub) ==
    8 * (IF pub.dup THEN 1 ELSE 0) + 2 * pub.qos + (IF pub.retain THEN 1 ELSE 0)

PublishBody(pub, l) ==
    EncodeText(pub.topic) \o PublishId(pub) \o PropsBytes(pub.props, l) \o pub.payload

LEMMA PublishPacket ==
    ASSUME NEW pub, NEW l
    PROVE  EncodePublish(pub, l) = BuildPacket(3, PublishFlags(pub), PublishBody(pub, l))
BY Zenon DEF EncodePublish, PublishFlags, PublishBody, PacketType

LEMMA PublishBits ==
    ASSUME NEW d \in 0..1, NEW q \in 0..3, NEW r \in 0..1, NEW f, f = 8 * d + 2 * q + r
    PROVE  /\ f \in 0..15 /\ (f \div 2) % 4 = q
           /\ (f \div 1) % 2 = r /\ (f \div 8) % 2 = d
BY SMTT(30)

LEMMA PublishFlagsRead ==
    ASSUME NEW pub, pub.qos \in 0..3, pub.retain \in BOOLEAN, pub.dup \in BOOLEAN
    PROVE  /\ PublishFlags(pub) \in 0..15
           /\ (PublishFlags(pub) \div 2) % 4 = pub.qos
           /\ Bit(PublishFlags(pub), 1) = pub.retain
           /\ Bit(PublishFlags(pub), 8) = pub.dup
<1>1. PICK d \in 0..1, r \in 0..1 : /\ d = (IF pub.dup THEN 1 ELSE 0)
                                    /\ r = (IF pub.retain THEN 1 ELSE 0)
    OBVIOUS
<1>2. PICK q \in 0..3 : q = pub.qos
    OBVIOUS
<1>6. PICK f : f = 8 * d + 2 * q + r
    OBVIOUS
<1>3. PublishFlags(pub) = f
    BY <1>1, <1>2, <1>6 DEF PublishFlags
<1>4. f \in 0..15 /\ (f \div 2) % 4 = q /\ (f \div 1) % 2 = r /\ (f \div 8) % 2 = d
    BY <1>6, PublishBits
<1>5. Bit(f, 1) = pub.retain /\ Bit(f, 8) = pub.dup
    BY <1>1, <1>4 DEF Bit
<1> QED
    BY <1>2, <1>3, <1>4, <1>5

\* A message of which some fields were read.
PublishRecord(topic, id, props, payload, pub) ==
    [topic |-> topic, id |-> id, props |-> props, payload |-> payload,
     qos |-> pub.qos, retain |-> pub.retain, dup |-> pub.dup]

LEMMA TopicUpdate ==
    ASSUME NEW a, NEW b, NEW c, NEW d, NEW x, NEW pub,
           NEW r, r = PublishRecord(a, b, c, d, pub)
    PROVE  [r EXCEPT !["topic"] = x] = PublishRecord(x, b, c, d, pub)
<1>1. PICK q, t, e : q = pub.qos /\ t = pub.retain /\ e = pub.dup
    OBVIOUS
<1> QED
    BY <1>1 DEF PublishRecord

LEMMA IdUpdate ==
    ASSUME NEW a, NEW b, NEW c, NEW d, NEW x, NEW pub,
           NEW r, r = PublishRecord(a, b, c, d, pub)
    PROVE  [r EXCEPT !["id"] = x] = PublishRecord(a, x, c, d, pub)
<1>1. PICK q, t, e : q = pub.qos /\ t = pub.retain /\ e = pub.dup
    OBVIOUS
<1> QED
    BY <1>1 DEF PublishRecord

LEMMA PropsUpdate ==
    ASSUME NEW a, NEW b, NEW c, NEW d, NEW x, NEW pub,
           NEW r, r = PublishRecord(a, b, c, d, pub)
    PROVE  [r EXCEPT !["props"] = x] = PublishRecord(a, b, x, d, pub)
<1>1. PICK q, t, e : q = pub.qos /\ t = pub.retain /\ e = pub.dup
    OBVIOUS
<1> QED
    BY <1>1 DEF PublishRecord

LEMMA PayloadUpdate ==
    ASSUME NEW a, NEW b, NEW c, NEW d, NEW x, NEW pub,
           NEW r, r = PublishRecord(a, b, c, d, pub)
    PROVE  [r EXCEPT !["payload"] = x] = PublishRecord(a, b, c, x, pub)
<1>1. PICK q, t, e : q = pub.qos /\ t = pub.retain /\ e = pub.dup
    OBVIOUS
<1> QED
    BY <1>1 DEF PublishRecord

LEMMA NumbersOfBytes == Seq(0..255) \subseteq Seq(Nat)
<1>1. 0..255 \subseteq Nat
    OBVIOUS
<1> QED
    BY <1>1, SeqMonotonic, Zenon

LEMMA PropsPart5 ==
    ASSUME NEW props, IsProps(props), NEW record, NEW name \in FieldNames
    PROVE  Holding(PropsField(name, 5), record, [record EXCEPT ![name] = props],
                   PropsBytes(props, 5))
<1>1. PICK type \in FieldTypes : type = "props"
    BY Names
<1>2. PICK bytes : bytes = EncodeProps(props)
    OBVIOUS
<1>3. Holds(type, props, bytes)
    BY <1>1, <1>2, PropsHeld
<1>4. Holding(<<<<name, type>>>>, record, [record EXCEPT ![name] = props], bytes)
    BY <1>1, <1>3, HoldingOne
<1>5. PropsField(name, 5) = <<<<name, type>>>> /\ PropsBytes(props, 5) = bytes
    BY <1>1, <1>2 DEF PropsField, PropsBytes, When
<1> QED
    BY <1>4, <1>5

LEMMA PropsPart ==
    ASSUME NEW props, IsProps(props), NEW l, NEW record, NEW name \in FieldNames
    PROVE  Holding(PropsField(name, l), record,
                   IF l = 5 THEN [record EXCEPT ![name] = props] ELSE record,
                   PropsBytes(props, l))
<1>1. CASE l = 5
    BY <1>1, PropsPart5
<1>2. CASE l # 5
    <2>1. PropsField(name, l) = <<>> /\ PropsBytes(props, l) = <<>>
        BY <1>2 DEF PropsField, PropsBytes, When
    <2> QED
        BY <1>2, <2>1, HoldingNone
<1> QED
    BY <1>1, <1>2

\* parse_publish reads what encode_publish writes.
LEMMA PublishHeld ==
    ASSUME NEW pub, IsPublish(pub), NEW l
    PROVE  HoldingRest(<<<<"topic", "text">>>> \o When(pub.qos > 0, <<<<"id", "u16">>>>)
                          \o PropsField("props", l) \o <<<<"payload", "rest">>>>,
                       PublishRecord(None, None, <<>>, None, pub),
                       IF l = 5 THEN pub ELSE [pub EXCEPT !.props = <<>>],
                       PublishBody(pub, l))
<1>1. pub.topic \in Seq(Nat) /\ pub.payload \in Seq(Nat)
    BY NumbersOfBytes, BytesAreNumbers DEF IsPublish
<1>10. PICK p : p = IF l = 5 THEN pub.props ELSE <<>>
    OBVIOUS
<1>11. PICK r0, r1, r2 :
          /\ r0 = PublishRecord(None, None, <<>>, None, pub)
          /\ r1 = PublishRecord(pub.topic, None, <<>>, None, pub)
          /\ r2 = PublishRecord(pub.topic, pub.id, <<>>, None, pub)
    OBVIOUS
<1>12. PICK r3, r4 :
          /\ r3 = PublishRecord(pub.topic, pub.id, p, None, pub)
          /\ r4 = PublishRecord(pub.topic, pub.id, p, pub.payload, pub)
    OBVIOUS
<1>2. Holding(<<<<"topic", "text">>>>, r0, r1, EncodeText(pub.topic))
    <2>1. Holds("text", pub.topic, EncodeText(pub.topic))
        BY <1>1, TextHeld
    <2>2. Holding(<<<<"topic", "text">>>>, r0, [r0 EXCEPT !["topic"] = pub.topic],
                  EncodeText(pub.topic))
        BY <2>1, HoldingOne, Names
    <2>3. [r0 EXCEPT !["topic"] = pub.topic] = r1
        BY <1>11, TopicUpdate
    <2> QED
        BY <2>2, <2>3
<1>3. Holding(When(pub.qos > 0, <<<<"id", "u16">>>>), r1, r2, PublishId(pub))
    <2>1. CASE pub.qos > 0
        <3>1. pub.id \in Nat /\ pub.id # None
            BY <2>1 DEF IsPublish, IsValue
        <3>2. PublishId(pub) = Word(pub.id)
            BY <2>1, <3>1 DEF PublishId, When
        <3>3. Holds("u16", pub.id, Word(pub.id))
            BY <3>1, WordHeld
        <3>4. Holding(<<<<"id", "u16">>>>, r1, [r1 EXCEPT !["id"] = pub.id], Word(pub.id))
            BY <3>3, HoldingOne, Names
        <3>5. [r1 EXCEPT !["id"] = pub.id] = r2
            BY <1>11, IdUpdate
        <3> QED
            BY <2>1, <3>2, <3>4, <3>5 DEF When
    <2>2. CASE ~(pub.qos > 0)
        <3>1. pub.id = None
            BY <2>2 DEF IsPublish
        <3> QED
            BY <1>11, <2>2, <3>1, HoldingNone DEF PublishId, When
    <2> QED
        BY <2>1, <2>2
<1>4. Holding(PropsField("props", l), r2, r3, PropsBytes(pub.props, l))
    <2>1. IsProps(pub.props) /\ "props" \in FieldNames
        BY Names DEF IsPublish
    <2>2. [r2 EXCEPT !["props"] = pub.props]
              = PublishRecord(pub.topic, pub.id, pub.props, None, pub)
        BY <1>11, PropsUpdate
    <2>3. r3 = IF l = 5 THEN [r2 EXCEPT !["props"] = pub.props] ELSE r2
        BY <1>10, <1>11, <1>12, <2>2
    <2>4. Holding(PropsField("props", l), r2,
                  IF l = 5 THEN [r2 EXCEPT !["props"] = pub.props] ELSE r2,
                  PropsBytes(pub.props, l))
        BY <2>1, PropsPart
    <2> QED
        BY <2>3, <2>4
<1>5. HoldingRest(<<<<"payload", "rest">>>>, r3, r4, pub.payload)
    <2>1. HoldsRest("rest", pub.payload, pub.payload)
        BY <1>1, RestHeld
    <2>2. HoldingRest(<<<<"payload", "rest">>>>, r3, [r3 EXCEPT !["payload"] = pub.payload],
                      pub.payload)
        BY <2>1, HoldingLast, Names
    <2>3. [r3 EXCEPT !["payload"] = pub.payload] = r4
        BY <1>12, PayloadUpdate
    <2> QED
        BY <2>2, <2>3
<1>6. r4 = IF l = 5 THEN pub ELSE [pub EXCEPT !.props = <<>>]
    <2>1. pub = PublishRecord(pub.topic, pub.id, pub.props, pub.payload, pub)
        BY DEF IsPublish, PublishRecord
    <2>2. [pub EXCEPT !["props"] = <<>>]
              = PublishRecord(pub.topic, pub.id, <<>>, pub.payload, pub)
        BY <2>1, PropsUpdate
    <2> QED
        BY <1>10, <1>12, <2>1, <2>2
<1>7. Holding(<<<<"topic", "text">>>> \o When(pub.qos > 0, <<<<"id", "u16">>>>), r0, r2,
              EncodeText(pub.topic) \o PublishId(pub))
    BY <1>2, <1>3, HoldingConcat
<1>8. Holding(<<<<"topic", "text">>>> \o When(pub.qos > 0, <<<<"id", "u16">>>>)
                  \o PropsField("props", l), r0, r3,
              EncodeText(pub.topic) \o PublishId(pub) \o PropsBytes(pub.props, l))
    BY <1>4, <1>7, HoldingConcat
<1>9. HoldingRest(<<<<"topic", "text">>>> \o When(pub.qos > 0, <<<<"id", "u16">>>>)
                  \o PropsField("props", l) \o <<<<"payload", "rest">>>>, r0, r4,
              PublishBody(pub, l))
    BY <1>5, <1>8, HoldingThenRest DEF PublishBody
<1> QED
    BY <1>6, <1>9, <1>11

\* parse_publish reads what encode_publish wrote: the same message, but for
\* the properties that levels below 5 do not have.
THEOREM PublishRead ==
    ASSUME NEW pub, IsPublish(pub), NEW l
    PROVE  /\ PublishBody(pub, l) \in Seq(Nat)
           /\ Small(PublishBody(pub, l)) =>
                 ParsePublish(PublishFlags(pub), PublishBody(pub, l), l)
                     = Got(IF l = 5 THEN pub ELSE [pub EXCEPT !.props = <<>>],
                           Len(PublishBody(pub, l)))
<1>1. PICK body, last : /\ body = PublishBody(pub, l)
                        /\ last = IF l = 5 THEN pub ELSE [pub EXCEPT !.props = <<>>]
    OBVIOUS
<1>2. PICK layout : layout = <<<<"topic", "text">>>>
                          \o When(pub.qos > 0, <<<<"id", "u16">>>>)
                          \o PropsField("props", l) \o <<<<"payload", "rest">>>>
    OBVIOUS
<1>3. HoldingRest(layout, PublishRecord(None, None, <<>>, None, pub), last, body)
    BY <1>1, <1>2, PublishHeld
<1>4. body \in Seq(Nat) /\ Len(body) \in Nat
    <2>1. body \in Seq(Nat)
        BY <1>3 DEF HoldingRest
    <2> QED
        BY <2>1
<1>5. Has(body, 0, body) /\ 0 + Len(body) = Len(body)
    BY <1>4, HasAll
<1>6. Small(body) => Fields(layout, body, 0, PublishRecord(None, None, <<>>, None, pub))
                         = Got(last, 0 + Len(body))
    BY <1>1, <1>3, <1>5, Zenon DEF HoldingRest
<1>7. /\ (PublishFlags(pub) \div 2) % 4 = pub.qos
      /\ Bit(PublishFlags(pub), 1) = pub.retain /\ Bit(PublishFlags(pub), 8) = pub.dup
    BY PublishFlagsRead DEF IsPublish
<1>8. ParsePublish(PublishFlags(pub), body, l)
          = Fields(layout, body, 0, PublishRecord(None, None, <<>>, None, pub))
    BY <1>2, <1>7, Zenon DEF ParsePublish, PublishRecord
<1> QED
    BY <1>1, <1>4, <1>5, <1>6, <1>8

ConnectFlags(c) ==
    (IF c.username # None THEN 128 ELSE 0) + (IF c.password # None THEN 64 ELSE 0)
        + (IF c.willRetain THEN 32 ELSE 0) + 8 * c.willQos
        + (IF c.willTopic # None THEN 4 ELSE 0) + (IF c.clean THEN 2 ELSE 0)

ConnectHead(c) ==
    EncodeText(<<>>) \o <<c.level>> \o <<ConnectFlags(c)>> \o Word(c.keepalive)

WillBytes(c) ==
    PropsBytes(c.willProps, c.level) \o (EncodeText(c.willTopic) \o EncodeText(c.willPayload))

LoginBytes(c) ==
    When(c.username # None, EncodeText(c.username))
        \o When(c.password # None, EncodeText(c.password))

ConnectRest(c) ==
    PropsBytes(c.props, c.level) \o EncodeText(c.cid)
        \o When(c.willTopic # None, WillBytes(c)) \o LoginBytes(c)

LEMMA ConnectParts ==
    ASSUME NEW c
    PROVE  ConnectBytes(c) = ConnectHead(c) \o ConnectRest(c)
BY Zenon DEF ConnectBytes, ConnectHead, ConnectRest, WillBytes, LoginBytes, ConnectFlags

LEMMA ConnectBits ==
    ASSUME NEW u \in 0..1, NEW p \in 0..1, NEW r \in 0..1, NEW q \in 0..3,
           NEW w \in 0..1, NEW c \in 0..1,
           NEW f, f = 128 * u + 64 * p + 32 * r + 8 * q + 4 * w + 2 * c
    PROVE  /\ f \in 0..255
           /\ (f \div 128) % 2 = u /\ (f \div 64) % 2 = p /\ (f \div 32) % 2 = r
           /\ (f \div 8) % 4 = q /\ (f \div 4) % 2 = w /\ (f \div 2) % 2 = c
<1>1. f \in 0..255
    OBVIOUS
<1>2. f \div 128 = u
    BY SMTT(30)
<1>3. f \div 64 = 2 * u + p
    BY SMTT(30)
<1>4. f \div 32 = 4 * u + 2 * p + r
    BY SMTT(30)
<1>5. f \div 8 = 16 * u + 8 * p + 4 * r + q
    BY SMTT(30)
<1>6. f \div 4 = 32 * u + 16 * p + 8 * r + 2 * q + w
    BY SMTT(30)
<1>7. f \div 2 = 64 * u + 32 * p + 16 * r + 4 * q + 2 * w + c
    BY SMTT(30)
<1>8. (f \div 128) % 2 = u
    BY <1>2
<1>9. (f \div 64) % 2 = p
    BY <1>3
<1>10. (f \div 32) % 2 = r
    BY <1>4
<1>11. (f \div 8) % 4 = q
    BY <1>5
<1>12. (f \div 4) % 2 = w
    BY <1>6
<1>13. (f \div 2) % 2 = c
    BY <1>7
<1> QED
    BY <1>1, <1>8, <1>9, <1>10, <1>11, <1>12, <1>13

LEMMA ConnectFlagsRead ==
    ASSUME NEW c, c.willQos \in 0..3, c.willRetain \in BOOLEAN, c.clean \in BOOLEAN,
           NEW f, f = ConnectFlags(c)
    PROVE  /\ f \in 0..255
           /\ Bit(f, 128) = (c.username # None) /\ Bit(f, 64) = (c.password # None)
           /\ Bit(f, 32) = c.willRetain /\ (f \div 8) % 4 = c.willQos
           /\ Bit(f, 4) = (c.willTopic # None) /\ Bit(f, 2) = c.clean
<1>1. PICK u \in 0..1, p \in 0..1, r \in 0..1, w \in 0..1, e \in 0..1 :
          /\ u = (IF c.username # None THEN 1 ELSE 0)
          /\ p = (IF c.password # None THEN 1 ELSE 0)
          /\ r = (IF c.willRetain THEN 1 ELSE 0)
          /\ w = (IF c.willTopic # None THEN 1 ELSE 0)
          /\ e = (IF c.clean THEN 1 ELSE 0)
    OBVIOUS
<1>2. PICK q \in 0..3 : q = c.willQos
    OBVIOUS
<1>3. f = 128 * u + 64 * p + 32 * r + 8 * q + 4 * w + 2 * e
    <2>1. /\ (IF c.username # None THEN 128 ELSE 0) = 128 * u
          /\ (IF c.password # None THEN 64 ELSE 0) = 64 * p
          /\ (IF c.willRetain THEN 32 ELSE 0) = 32 * r
          /\ (IF c.willTopic # None THEN 4 ELSE 0) = 4 * w
          /\ (IF c.clean THEN 2 ELSE 0) = 2 * e
        BY <1>1
    <2> QED
        BY <1>2, <2>1 DEF ConnectFlags
<1>4. /\ f \in 0..255
      /\ (f \div 128) % 2 = u /\ (f \div 64) % 2 = p /\ (f \div 32) % 2 = r
      /\ (f \div 8) % 4 = q /\ (f \div 4) % 2 = w /\ (f \div 2) % 2 = e
    BY <1>3, ConnectBits
<1>5. /\ Bit(f, 128) = (c.username # None) /\ Bit(f, 64) = (c.password # None)
      /\ Bit(f, 32) = c.willRetain
      /\ Bit(f, 4) = (c.willTopic # None) /\ Bit(f, 2) = c.clean
    BY <1>1, <1>4 DEF Bit
<1> QED
    BY <1>2, <1>4, <1>5

\* A CONNECT of which some fields were read.
ConnectRecord(props, cid, willProps, willTopic, willPayload, username, password, c) ==
    [level |-> c.level, clean |-> c.clean, keepalive |-> c.keepalive,
     cid |-> cid, props |-> props,
     willTopic |-> willTopic, willPayload |-> willPayload, willProps |-> willProps,
     willQos |-> c.willQos, willRetain |-> c.willRetain,
     username |-> username, password |-> password]

LEMMA ConnectPropsUpdate ==
    ASSUME NEW a, NEW b, NEW c, NEW d, NEW e, NEW f, NEW g, NEW x, NEW con,
           NEW r, r = ConnectRecord(a, b, c, d, e, f, g, con)
    PROVE  [r EXCEPT !["props"] = x] = ConnectRecord(x, b, c, d, e, f, g, con)
<1>1. PICK l, cl, k, q, t : l = con.level /\ cl = con.clean /\ k = con.keepalive
                            /\ q = con.willQos /\ t = con.willRetain
    OBVIOUS
<1> QED
    BY <1>1 DEF ConnectRecord

LEMMA ConnectCidUpdate ==
    ASSUME NEW a, NEW b, NEW c, NEW d, NEW e, NEW f, NEW g, NEW x, NEW con,
           NEW r, r = ConnectRecord(a, b, c, d, e, f, g, con)
    PROVE  [r EXCEPT !["cid"] = x] = ConnectRecord(a, x, c, d, e, f, g, con)
<1>1. PICK l, cl, k, q, t : l = con.level /\ cl = con.clean /\ k = con.keepalive
                            /\ q = con.willQos /\ t = con.willRetain
    OBVIOUS
<1> QED
    BY <1>1 DEF ConnectRecord

LEMMA WillPropsUpdate ==
    ASSUME NEW a, NEW b, NEW c, NEW d, NEW e, NEW f, NEW g, NEW x, NEW con,
           NEW r, r = ConnectRecord(a, b, c, d, e, f, g, con)
    PROVE  [r EXCEPT !["willProps"] = x] = ConnectRecord(a, b, x, d, e, f, g, con)
<1>1. PICK l, cl, k, q, t : l = con.level /\ cl = con.clean /\ k = con.keepalive
                            /\ q = con.willQos /\ t = con.willRetain
    OBVIOUS
<1> QED
    BY <1>1 DEF ConnectRecord

LEMMA WillTopicUpdate ==
    ASSUME NEW a, NEW b, NEW c, NEW d, NEW e, NEW f, NEW g, NEW x, NEW con,
           NEW r, r = ConnectRecord(a, b, c, d, e, f, g, con)
    PROVE  [r EXCEPT !["willTopic"] = x] = ConnectRecord(a, b, c, x, e, f, g, con)
<1>1. PICK l, cl, k, q, t : l = con.level /\ cl = con.clean /\ k = con.keepalive
                            /\ q = con.willQos /\ t = con.willRetain
    OBVIOUS
<1> QED
    BY <1>1 DEF ConnectRecord

LEMMA WillPayloadUpdate ==
    ASSUME NEW a, NEW b, NEW c, NEW d, NEW e, NEW f, NEW g, NEW x, NEW con,
           NEW r, r = ConnectRecord(a, b, c, d, e, f, g, con)
    PROVE  [r EXCEPT !["willPayload"] = x] = ConnectRecord(a, b, c, d, x, f, g, con)
<1>1. PICK l, cl, k, q, t : l = con.level /\ cl = con.clean /\ k = con.keepalive
                            /\ q = con.willQos /\ t = con.willRetain
    OBVIOUS
<1> QED
    BY <1>1 DEF ConnectRecord

LEMMA UsernameUpdate ==
    ASSUME NEW a, NEW b, NEW c, NEW d, NEW e, NEW f, NEW g, NEW x, NEW con,
           NEW r, r = ConnectRecord(a, b, c, d, e, f, g, con)
    PROVE  [r EXCEPT !["username"] = x] = ConnectRecord(a, b, c, d, e, x, g, con)
<1>1. PICK l, cl, k, q, t : l = con.level /\ cl = con.clean /\ k = con.keepalive
                            /\ q = con.willQos /\ t = con.willRetain
    OBVIOUS
<1> QED
    BY <1>1 DEF ConnectRecord

LEMMA PasswordUpdate ==
    ASSUME NEW a, NEW b, NEW c, NEW d, NEW e, NEW f, NEW g, NEW x, NEW con,
           NEW r, r = ConnectRecord(a, b, c, d, e, f, g, con)
    PROVE  [r EXCEPT !["password"] = x] = ConnectRecord(a, b, c, d, e, f, x, con)
<1>1. PICK l, cl, k, q, t : l = con.level /\ cl = con.clean /\ k = con.keepalive
                            /\ q = con.willQos /\ t = con.willRetain
    OBVIOUS
<1> QED
    BY <1>1 DEF ConnectRecord

HeadRecord(lev, flags, keepalive, name) ==
    [name |-> name, level |-> lev, flags |-> flags, keepalive |-> keepalive]

LEMMA HeadUpdates ==
    ASSUME NEW a, NEW b, NEW c, NEW d, NEW x, NEW r, r = HeadRecord(a, b, c, d)
    PROVE  /\ [r EXCEPT !["level"] = x] = HeadRecord(x, b, c, d)
           /\ [r EXCEPT !["flags"] = x] = HeadRecord(a, x, c, d)
           /\ [r EXCEPT !["keepalive"] = x] = HeadRecord(a, b, x, d)
           /\ [r EXCEPT !["name"] = x] = HeadRecord(a, b, c, x)
<1>1. [r EXCEPT !["level"] = x] = HeadRecord(x, b, c, d)
    BY DEF HeadRecord
<1>2. [r EXCEPT !["flags"] = x] = HeadRecord(a, x, c, d)
    BY DEF HeadRecord
<1>3. [r EXCEPT !["keepalive"] = x] = HeadRecord(a, b, x, d)
    BY DEF HeadRecord
<1>4. [r EXCEPT !["name"] = x] = HeadRecord(a, b, c, x)
    BY DEF HeadRecord
<1> QED
    BY <1>1, <1>2, <1>3, <1>4

LEMMA SameList ==
    ASSUME NEW S, NEW a \in Seq(S), NEW b \in Seq(S), Len(a) = Len(b),
           \A i \in 1..Len(b) : a[i] = b[i]
    PROVE  a = b
OBVIOUS

LEMMA OneMore ==
    ASSUME NEW S, NEW a \in Seq(S), NEW x \in S, NEW b \in Seq(S),
           Len(b) = Len(a) + 1, b[Len(a) + 1] = x, \A i \in 1..Len(a) : b[i] = a[i]
    PROVE  b = a \o <<x>>
<1>1. PICK c : c = a \o <<x>>
    OBVIOUS
<1>2. <<x>> \in Seq(S) /\ Len(<<x>>) = 1 /\ <<x>>[1] = x
    OBVIOUS
<1>3. /\ c \in Seq(S) /\ Len(a) \in Nat /\ Len(c) = Len(a) + 1
      /\ \A i \in 1..Len(a) : c[i] = a[i]
      /\ \A i \in 1..1 : c[Len(a) + i] = <<x>>[i]
    BY <1>1, <1>2, ConcatTypes
<1>4. c[Len(a) + 1] = x
    BY <1>2, <1>3
<1>5. \A i \in 1..Len(c) : b[i] = c[i]
    <2> TAKE i \in 1..Len(c)
    <2>1. i \in 1..Len(a) \/ i = Len(a) + 1
        BY <1>3
    <2> QED
        BY <1>3, <1>4, <2>1
<1> QED
    BY <1>1, <1>3, <1>5, SameList

LEMMA TwoInARow ==
    ASSUME NEW S, NEW a \in S, NEW b \in S
    PROVE  <<a, b>> = <<a>> \o <<b>>
<1>1. <<a>> \in Seq(S) /\ <<a, b>> \in Seq(S)
    OBVIOUS
<1>2. /\ Len(<<a>>) = 1 /\ Len(<<a, b>>) = 2
      /\ <<a>>[1] = a /\ <<a, b>>[1] = a /\ <<a, b>>[2] = b
    OBVIOUS
<1>3. PICK s \in Seq(S), t \in Seq(S) : s = <<a>> /\ t = <<a, b>>
    BY <1>1
<1>4. /\ Len(s) = 1 /\ Len(t) = Len(s) + 1 /\ t[Len(s) + 1] = b
      /\ \A i \in 1..Len(s) : t[i] = s[i]
    BY <1>2, <1>3
<1>5. t = s \o <<b>>
    BY <1>3, <1>4, OneMore
<1> QED
    BY <1>3, <1>5

LEMMA FourInARow ==
    ASSUME NEW S, NEW a \in S, NEW b \in S, NEW c \in S, NEW d \in S,
           NEW list, list = <<a, b, c, d>>
    PROVE  list = <<a>> \o <<b>> \o <<c>> \o <<d>>
<1>1. <<a, b>> \in Seq(S) /\ <<a, b, c>> \in Seq(S) /\ <<a, b, c, d>> \in Seq(S)
    OBVIOUS
<1>2. /\ Len(<<a, b>>) = 2 /\ Len(<<a, b, c>>) = 3 /\ Len(<<a, b, c, d>>) = 4
      /\ \A i \in 1..2 : <<a, b, c>>[i] = <<a, b>>[i]
      /\ \A i \in 1..3 : <<a, b, c, d>>[i] = <<a, b, c>>[i]
      /\ <<a, b, c>>[3] = c /\ <<a, b, c, d>>[4] = d
    OBVIOUS
<1>3. PICK s \in Seq(S), t \in Seq(S), u \in Seq(S) :
          s = <<a, b>> /\ t = <<a, b, c>> /\ u = <<a, b, c, d>>
    BY <1>1
<1>4. /\ Len(s) = 2 /\ Len(t) = Len(s) + 1 /\ t[Len(s) + 1] = c
      /\ \A i \in 1..Len(s) : t[i] = s[i]
    BY <1>2, <1>3
<1>5. /\ Len(t) = 3 /\ Len(u) = Len(t) + 1 /\ u[Len(t) + 1] = d
      /\ \A i \in 1..Len(t) : u[i] = t[i]
    BY <1>2, <1>3
<1>6. t = s \o <<c>>
    BY <1>3, <1>4, OneMore
<1>7. u = t \o <<d>>
    BY <1>3, <1>5, OneMore
<1>8. s = <<a>> \o <<b>>
    BY <1>3, TwoInARow
<1> QED
    BY <1>3, <1>6, <1>7, <1>8

LEMMA Associative ==
    ASSUME NEW S, NEW a \in Seq(S), NEW b \in Seq(S), NEW c \in Seq(S)
    PROVE  (a \o b) \o c = a \o (b \o c)
<1>7. a \o b \in Seq(S) /\ b \o c \in Seq(S)
    BY ConcatTypes
<1>1. PICK ab \in Seq(S), bc \in Seq(S) : ab = a \o b /\ bc = b \o c
    BY <1>7
<1>8. ab \o c \in Seq(S) /\ a \o bc \in Seq(S)
    BY ConcatTypes
<1>2. PICK x \in Seq(S), y \in Seq(S) : x = ab \o c /\ y = a \o bc
    BY <1>8
<1>3. PICK l \in Nat, m \in Nat, n \in Nat : l = Len(a) /\ m = Len(b) /\ n = Len(c)
    OBVIOUS
<1>4. /\ Len(ab) = l + m /\ Len(bc) = m + n
      /\ \A i \in 1..l : ab[i] = a[i]
      /\ \A i \in 1..m : ab[l + i] = b[i] /\ bc[i] = b[i]
      /\ \A i \in 1..n : bc[m + i] = c[i]
    BY <1>1, <1>3, ConcatTypes
<1>5. /\ Len(x) = (l + m) + n /\ Len(y) = l + (m + n)
      /\ \A i \in 1..(l + m) : x[i] = ab[i]
      /\ \A i \in 1..n : x[(l + m) + i] = c[i]
      /\ \A i \in 1..l : y[i] = a[i]
      /\ \A i \in 1..(m + n) : y[l + i] = bc[i]
    <2>1. /\ Len(ab \o c) = Len(ab) + Len(c)
          /\ \A i \in 1..Len(ab) : (ab \o c)[i] = ab[i]
          /\ \A i \in 1..Len(c) : (ab \o c)[Len(ab) + i] = c[i]
        BY ConcatTypes
    <2>2. /\ Len(a \o bc) = Len(a) + Len(bc)
          /\ \A i \in 1..Len(a) : (a \o bc)[i] = a[i]
          /\ \A i \in 1..Len(bc) : (a \o bc)[Len(a) + i] = bc[i]
        BY ConcatTypes
    <2> QED
        BY <1>2, <1>3, <1>4, <2>1, <2>2, Zenon
<1>6. \A i \in 1..Len(y) : x[i] = y[i]
    <2> TAKE i \in 1..Len(y)
    <2>1. CASE i <= l
        <3>1. i \in 1..l /\ i \in 1..(l + m)
            BY <1>3, <1>5, <2>1
        <3> QED
            BY <1>4, <1>5, <3>1
    <2>2. CASE l < i /\ i <= l + m
        <3>1. PICK j \in 1..m : i = l + j
            <4>1. i - l \in 1..m /\ i = l + (i - l)
                BY <1>3, <1>5, <2>2
            <4> QED
                BY <4>1
        <3>2. i \in 1..(l + m) /\ j \in 1..(m + n)
            BY <1>3, <1>5, <2>2, <3>1
        <3> QED
            BY <1>4, <1>5, <3>1, <3>2
    <2>3. CASE l + m < i
        <3>1. PICK j \in 1..n : i = (l + m) + j
            <4>1. i - (l + m) \in 1..n /\ i = (l + m) + (i - (l + m))
                BY <1>3, <1>5, <2>3
            <4> QED
                BY <4>1
        <3>2. m + j \in 1..(m + n) /\ l + (m + j) = i
            BY <1>3, <3>1
        <3>3. y[l + (m + j)] = bc[m + j] /\ bc[m + j] = c[j]
            BY <1>4, <1>5, <3>2
        <3>4. x[i] = c[j]
            BY <1>5, <3>1
        <3> QED
            BY <3>2, <3>3, <3>4
    <2> QED
        BY <1>3, <1>5, <2>1, <2>2, <2>3
<1> QED
    BY <1>1, <1>2, <1>5, <1>6, SameList

HeadLayout == <<<<"name", "text">>, <<"level", "byte">>,
                <<"flags", "byte">>, <<"keepalive", "u16">>>>

LEMMA HeadInARow ==
    HeadLayout = <<<<"name", "text">>>> \o <<<<"level", "byte">>>>
                     \o <<<<"flags", "byte">>>> \o <<<<"keepalive", "u16">>>>
<1>1. PICK a \in FieldNames \X FieldTypes, b \in FieldNames \X FieldTypes,
           c \in FieldNames \X FieldTypes, d \in FieldNames \X FieldTypes :
          /\ a = <<"name", "text">> /\ b = <<"level", "byte">>
          /\ c = <<"flags", "byte">> /\ d = <<"keepalive", "u16">>
    BY Names
<1>3. PICK S : S = FieldNames \X FieldTypes
    OBVIOUS
<1>4. a \in S /\ b \in S /\ c \in S /\ d \in S
    BY <1>3
<1>5. PICK list : list = <<a, b, c, d>>
    OBVIOUS
<1>2. list = <<a>> \o <<b>> \o <<c>> \o <<d>>
    BY <1>4, <1>5, FourInARow
<1> QED
    BY <1>1, <1>2, <1>5 DEF HeadLayout

LEMMA HeadHeld ==
    ASSUME NEW c, IsConnect(c)
    PROVE  Holding(HeadLayout, HeadRecord(0, 0, 0, None),
                   HeadRecord(c.level, ConnectFlags(c), c.keepalive, <<>>),
                   ConnectHead(c))
<1>1. PICK lev, flags, alive : /\ lev = c.level /\ flags = ConnectFlags(c)
                                 /\ alive = c.keepalive
    OBVIOUS
<1>2. lev \in Nat /\ flags \in Nat /\ alive \in Nat
    <2>1. lev \in Nat /\ alive \in Nat
        <3>1. lev \in 0..255 /\ IsValue("u16", alive)
            BY <1>1, Zenon DEF IsConnect
        <3> QED
            BY <3>1 DEF IsValue
    <2>2. flags \in 0..255
        BY <1>1, ConnectFlagsRead DEF IsConnect
    <2> QED
        BY <2>1, <2>2
<1>3. PICK r0, r1, r2, r3, r4 :
          /\ r0 = HeadRecord(0, 0, 0, None) /\ r1 = HeadRecord(0, 0, 0, <<>>)
          /\ r2 = HeadRecord(lev, 0, 0, <<>>) /\ r3 = HeadRecord(lev, flags, 0, <<>>)
          /\ r4 = HeadRecord(lev, flags, alive, <<>>)
    OBVIOUS
<1>4. Holding(<<<<"name", "text">>>>, r0, r1, EncodeText(<<>>))
    <2>1. Holds("text", <<>>, EncodeText(<<>>))
        BY TextHeld, <<>> \in Seq(Nat)
    <2>2. Holding(<<<<"name", "text">>>>, r0, [r0 EXCEPT !["name"] = <<>>], EncodeText(<<>>))
        BY <2>1, HoldingOne, Names
    <2>3. [r0 EXCEPT !["name"] = <<>>] = r1
        BY <1>3 DEF HeadRecord
    <2> QED
        BY <2>2, <2>3
<1>5. Holding(<<<<"level", "byte">>>>, r1, r2, <<lev>>)
    <2>1. Holds("byte", lev, <<lev>>)
        BY <1>2, ByteHeld
    <2>2. Holding(<<<<"level", "byte">>>>, r1, [r1 EXCEPT !["level"] = lev], <<lev>>)
        BY <2>1, HoldingOne, Names
    <2>3. [r1 EXCEPT !["level"] = lev] = r2
        BY <1>3 DEF HeadRecord
    <2> QED
        BY <2>2, <2>3
<1>6. Holding(<<<<"flags", "byte">>>>, r2, r3, <<flags>>)
    <2>1. Holds("byte", flags, <<flags>>)
        BY <1>2, ByteHeld
    <2>2. Holding(<<<<"flags", "byte">>>>, r2, [r2 EXCEPT !["flags"] = flags], <<flags>>)
        BY <2>1, HoldingOne, Names
    <2>3. [r2 EXCEPT !["flags"] = flags] = r3
        BY <1>3 DEF HeadRecord
    <2> QED
        BY <2>2, <2>3
<1>7. Holding(<<<<"keepalive", "u16">>>>, r3, r4, Word(alive))
    <2>1. Holds("u16", alive, Word(alive))
        BY <1>2, WordHeld
    <2>2. Holding(<<<<"keepalive", "u16">>>>, r3, [r3 EXCEPT !["keepalive"] = alive],
                  Word(alive))
        BY <2>1, HoldingOne, Names
    <2>3. [r3 EXCEPT !["keepalive"] = alive] = r4
        BY <1>3 DEF HeadRecord
    <2> QED
        BY <2>2, <2>3
<1>8. Holding(<<<<"name", "text">>>> \o <<<<"level", "byte">>>>, r0, r2,
              EncodeText(<<>>) \o <<lev>>)
    BY <1>4, <1>5, HoldingConcat
<1>9. Holding(<<<<"name", "text">>>> \o <<<<"level", "byte">>>> \o <<<<"flags", "byte">>>>,
              r0, r3, EncodeText(<<>>) \o <<lev>> \o <<flags>>)
    BY <1>6, <1>8, HoldingConcat
<1>10. Holding(<<<<"name", "text">>>> \o <<<<"level", "byte">>>> \o <<<<"flags", "byte">>>>
                   \o <<<<"keepalive", "u16">>>>,
               r0, r4, EncodeText(<<>>) \o <<lev>> \o <<flags>> \o Word(alive))
    BY <1>7, <1>9, HoldingConcat
<1> QED
    BY <1>1, <1>3, <1>10, HeadInARow, Zenon DEF ConnectHead

WillLayout(lev) ==
    PropsField("willProps", lev) \o <<<<"willTopic", "text">>, <<"willPayload", "text">>>>

LEMMA WillInARow ==
    <<<<"willTopic", "text">>, <<"willPayload", "text">>>>
        = <<<<"willTopic", "text">>>> \o <<<<"willPayload", "text">>>>
<1>1. PICK a \in FieldNames \X FieldTypes, b \in FieldNames \X FieldTypes :
          a = <<"willTopic", "text">> /\ b = <<"willPayload", "text">>
    BY Names
<1>2. <<a, b>> = <<a>> \o <<b>>
    BY TwoInARow
<1> QED
    BY <1>1, <1>2

LEMMA TextIsNumbers ==
    ASSUME NEW s, IsText(s)
    PROVE  s \in Seq(Nat)
BY BytesAreNumbers

\* A will, if there is one.
LEMMA WillHeld ==
    ASSUME NEW c, IsConnect(c), c.willTopic # None, NEW props, NEW cid,
           NEW before, before = ConnectRecord(props, cid, <<>>, None, None, None, None, c),
           NEW after, after = ConnectRecord(props, cid, c.willProps, c.willTopic,
                                            c.willPayload, None, None, c)
    PROVE  Holding(WillLayout(c.level), before, after, WillBytes(c))
<1>1. PICK lev, will, topic, payload :
          /\ lev = c.level /\ will = c.willProps /\ topic = c.willTopic
          /\ payload = c.willPayload
    OBVIOUS
<1>2. /\ IsProps(will) /\ IsText(topic) /\ IsText(payload)
      /\ lev # 5 => will = <<>>
    BY <1>1, Zenon DEF IsConnect
<1>3. topic \in Seq(Nat) /\ payload \in Seq(Nat)
    BY <1>2, TextIsNumbers
<1>4. PICK r1, r2 : /\ r1 = ConnectRecord(props, cid, will, None, None, None, None, c)
                    /\ r2 = ConnectRecord(props, cid, will, topic, None, None, None, c)
    OBVIOUS
<1>5. Holding(PropsField("willProps", lev), before, r1, PropsBytes(will, lev))
    <2>1. [before EXCEPT !["willProps"] = will] = r1
        BY <1>4, WillPropsUpdate
    <2>2. lev # 5 => before = r1
        BY <1>2, <1>4
    <2>3. Holding(PropsField("willProps", lev), before,
                  IF lev = 5 THEN [before EXCEPT !["willProps"] = will] ELSE before,
                  PropsBytes(will, lev))
        BY <1>2, PropsPart, Names
    <2>4. (IF lev = 5 THEN [before EXCEPT !["willProps"] = will] ELSE before) = r1
        BY <2>1, <2>2
    <2> QED
        BY <2>3, <2>4
<1>6. Holding(<<<<"willTopic", "text">>>>, r1, r2, EncodeText(topic))
    <2>1. [r1 EXCEPT !["willTopic"] = topic] = r2
        BY <1>4, WillTopicUpdate
    <2>2. Holding(<<<<"willTopic", "text">>>>, r1, [r1 EXCEPT !["willTopic"] = topic],
                  EncodeText(topic))
        BY <1>3, TextHeld, HoldingOne, Names
    <2> QED
        BY <2>1, <2>2
<1>7. Holding(<<<<"willPayload", "text">>>>, r2, after, EncodeText(payload))
    <2>1. [r2 EXCEPT !["willPayload"] = payload] = after
        BY <1>1, <1>4, WillPayloadUpdate
    <2>2. Holding(<<<<"willPayload", "text">>>>, r2, [r2 EXCEPT !["willPayload"] = payload],
                  EncodeText(payload))
        BY <1>3, TextHeld, HoldingOne, Names
    <2> QED
        BY <2>1, <2>2
<1>8. Holding(<<<<"willTopic", "text">>>> \o <<<<"willPayload", "text">>>>, r1, after,
              EncodeText(topic) \o EncodeText(payload))
    BY <1>6, <1>7, HoldingConcat
<1>9. Holding(PropsField("willProps", lev)
                  \o (<<<<"willTopic", "text">>>> \o <<<<"willPayload", "text">>>>),
              before, after,
              PropsBytes(will, lev) \o (EncodeText(topic) \o EncodeText(payload)))
    BY <1>5, <1>8, HoldingConcat
<1> QED
    BY <1>1, <1>9, WillInARow, Zenon DEF WillLayout, WillBytes

\* A name or a password that may be missing.
LEMMA LoginHeld ==
    ASSUME NEW c, IsConnect(c), NEW flags,
           Bit(flags, 128) = (c.username # None), Bit(flags, 64) = (c.password # None),
           NEW a, NEW b, NEW w, NEW t, NEW p,
           NEW before, before = ConnectRecord(a, b, w, t, p, None, None, c),
           NEW after, after = ConnectRecord(a, b, w, t, p, c.username, c.password, c)
    PROVE  Holding(Credentials(flags), before, after, LoginBytes(c))
<1>1. PICK user, pass, hasUser, hasPass :
          /\ user = c.username /\ pass = c.password
          /\ hasUser = (user # None) /\ hasPass = (pass # None)
    OBVIOUS
<1>2. /\ hasUser => user \in Seq(Nat)
      /\ hasPass => pass \in Seq(Nat)
    <2>1. (user = None \/ IsText(user)) /\ (pass = None \/ IsText(pass))
        BY <1>1, Zenon DEF IsConnect
    <2> QED
        BY <1>1, <2>1, TextIsNumbers
<1>3. PICK r1 : r1 = ConnectRecord(a, b, w, t, p, user, None, c)
    OBVIOUS
<1>4. Holding(When(hasUser, <<<<"username", "text">>>>), before, r1,
              When(hasUser, EncodeText(user)))
    <2>1. [before EXCEPT !["username"] = user] = r1
        BY <1>3, UsernameUpdate
    <2>2. hasUser => Holding(<<<<"username", "text">>>>, before,
                             [before EXCEPT !["username"] = user], EncodeText(user))
        BY <1>2, TextHeld, HoldingOne, Names
    <2>3. ~hasUser => r1 = before
        BY <1>1, <1>3
    <2>4. hasUser => Holding(<<<<"username", "text">>>>, before, r1, EncodeText(user))
        BY <2>1, <2>2
    <2> QED
        BY <1>1, <2>3, <2>4, HoldingWhen
<1>5. Holding(When(hasPass, <<<<"password", "text">>>>), r1, after,
              When(hasPass, EncodeText(pass)))
    <2>1. [r1 EXCEPT !["password"] = pass] = after
        BY <1>1, <1>3, PasswordUpdate
    <2>2. hasPass => Holding(<<<<"password", "text">>>>, r1,
                             [r1 EXCEPT !["password"] = pass], EncodeText(pass))
        BY <1>2, TextHeld, HoldingOne, Names
    <2>3. ~hasPass => after = r1
        BY <1>1, <1>3
    <2>4. hasPass => Holding(<<<<"password", "text">>>>, r1, after, EncodeText(pass))
        BY <2>1, <2>2
    <2> QED
        BY <1>1, <2>3, <2>4, HoldingWhen
<1>6. Holding(When(hasUser, <<<<"username", "text">>>>)
                  \o When(hasPass, <<<<"password", "text">>>>), before, after,
              When(hasUser, EncodeText(user)) \o When(hasPass, EncodeText(pass)))
    BY <1>4, <1>5, HoldingConcat
<1>7. hasUser = Bit(flags, 128) /\ hasPass = Bit(flags, 64)
    BY <1>1
<1>8. Credentials(flags) = When(hasUser, <<<<"username", "text">>>>)
                               \o When(hasPass, <<<<"password", "text">>>>)
    BY <1>7, Zenon DEF Credentials
<1>9. LoginBytes(c) = When(hasUser, EncodeText(user)) \o When(hasPass, EncodeText(pass))
    BY <1>1, Zenon DEF LoginBytes
<1> QED
    BY <1>6, <1>8, <1>9

RestLayout(lev, flags) ==
    PropsField("props", lev) \o <<<<"cid", "text">>>>
        \o When(Bit(flags, 4), WillLayout(lev)) \o Credentials(flags)

LEMMA ConnectRestHeld ==
    ASSUME NEW c, IsConnect(c), NEW flags, flags = ConnectFlags(c),
           NEW before, before = ConnectRecord(<<>>, None, <<>>, None, None, None, None, c)
    PROVE  Holding(RestLayout(c.level, flags), before, c, ConnectRest(c))
<1>1. PICK lev, props, cid, hasWill :
          /\ lev = c.level /\ props = c.props /\ cid = c.cid
          /\ hasWill = (c.willTopic # None)
    OBVIOUS
<1>2. /\ IsProps(props) /\ IsText(cid)
      /\ lev # 5 => props = <<>>
      /\ c.willTopic = None => c.willPayload = None /\ c.willProps = <<>>
    BY <1>1, Zenon DEF IsConnect
<1>3. cid \in Seq(Nat)
    BY <1>2, TextIsNumbers
<1>4. /\ Bit(flags, 128) = (c.username # None) /\ Bit(flags, 64) = (c.password # None)
      /\ Bit(flags, 4) = hasWill
    BY <1>1, ConnectFlagsRead DEF IsConnect
<1>5. PICK r1, r2, r3 :
          /\ r1 = ConnectRecord(props, None, <<>>, None, None, None, None, c)
          /\ r2 = ConnectRecord(props, cid, <<>>, None, None, None, None, c)
          /\ r3 = ConnectRecord(props, cid, c.willProps, c.willTopic, c.willPayload,
                                None, None, c)
    OBVIOUS
<1>6. Holding(PropsField("props", lev), before, r1, PropsBytes(props, lev))
    <2>1. [before EXCEPT !["props"] = props] = r1
        BY <1>5, ConnectPropsUpdate
    <2>2. lev # 5 => before = r1
        BY <1>2, <1>5
    <2>3. Holding(PropsField("props", lev), before,
                  IF lev = 5 THEN [before EXCEPT !["props"] = props] ELSE before,
                  PropsBytes(props, lev))
        BY <1>2, PropsPart, Names
    <2>4. (IF lev = 5 THEN [before EXCEPT !["props"] = props] ELSE before) = r1
        BY <2>1, <2>2
    <2> QED
        BY <2>3, <2>4
<1>7. Holding(<<<<"cid", "text">>>>, r1, r2, EncodeText(cid))
    <2>1. [r1 EXCEPT !["cid"] = cid] = r2
        BY <1>5, ConnectCidUpdate
    <2>2. Holding(<<<<"cid", "text">>>>, r1, [r1 EXCEPT !["cid"] = cid], EncodeText(cid))
        BY <1>3, TextHeld, HoldingOne, Names
    <2> QED
        BY <2>1, <2>2
<1>8. Holding(When(hasWill, WillLayout(lev)), r2, r3, When(hasWill, WillBytes(c)))
    <2>1. hasWill => Holding(WillLayout(lev), r2, r3, WillBytes(c))
        BY <1>1, <1>5, WillHeld
    <2>2. ~hasWill => r3 = r2
        BY <1>1, <1>2, <1>5
    <2> QED
        BY <1>1, <2>1, <2>2, HoldingWhen
<1>9. Holding(Credentials(flags), r3, c, LoginBytes(c))
    <2>1. c = ConnectRecord(props, cid, c.willProps, c.willTopic, c.willPayload,
                            c.username, c.password, c)
        BY <1>1, Zenon DEF IsConnect, ConnectRecord
    <2> QED
        BY <1>4, <1>5, <2>1, LoginHeld
<1>10. Holding(PropsField("props", lev) \o <<<<"cid", "text">>>>, before, r2,
               PropsBytes(props, lev) \o EncodeText(cid))
    BY <1>6, <1>7, HoldingConcat
<1>11. Holding(PropsField("props", lev) \o <<<<"cid", "text">>>>
                   \o When(hasWill, WillLayout(lev)), before, r3,
               PropsBytes(props, lev) \o EncodeText(cid) \o When(hasWill, WillBytes(c)))
    BY <1>8, <1>10, HoldingConcat
<1>12. Holding(PropsField("props", lev) \o <<<<"cid", "text">>>>
                   \o When(hasWill, WillLayout(lev)) \o Credentials(flags), before, c,
               PropsBytes(props, lev) \o EncodeText(cid) \o When(hasWill, WillBytes(c))
                   \o LoginBytes(c))
    BY <1>9, <1>11, HoldingConcat
<1>13. ConnectRest(c) = PropsBytes(props, lev) \o EncodeText(cid)
                            \o When(hasWill, WillBytes(c)) \o LoginBytes(c)
    BY <1>1, Zenon DEF ConnectRest
<1>14. RestLayout(lev, flags) = PropsField("props", lev) \o <<<<"cid", "text">>>>
                   \o When(hasWill, WillLayout(lev)) \o Credentials(flags)
    BY <1>4, Zenon DEF RestLayout
<1> QED
    BY <1>1, <1>12, <1>13, <1>14

\* What a client wrote as CONNECT is read back.
LEMMA ConnectRead ==
    ASSUME NEW c, IsConnect(c)
    PROVE  /\ ConnectBytes(c) \in Seq(Nat)
           /\ Small(ConnectBytes(c)) =>
                 ParseConnect(ConnectBytes(c)) = Got(c, Len(ConnectBytes(c)))
<1>1. PICK data, head, rest, flags :
          /\ data = ConnectBytes(c) /\ head = ConnectHead(c) /\ rest = ConnectRest(c)
          /\ flags = ConnectFlags(c)
    OBVIOUS
<1>2. PICK before : before = ConnectRecord(<<>>, None, <<>>, None, None, None, None, c)
    OBVIOUS
<1>3. /\ Holding(HeadLayout, HeadRecord(0, 0, 0, None),
                 HeadRecord(c.level, flags, c.keepalive, <<>>), head)
      /\ Holding(RestLayout(c.level, flags), before, c, rest)
    BY <1>1, <1>2, HeadHeld, ConnectRestHeld
<1>4. head \in Seq(Nat) /\ rest \in Seq(Nat)
    BY <1>3 DEF Holding
<1>5. data = head \o rest
    BY <1>1, ConnectParts
<1>6. data \in Seq(Nat) /\ Has(data, 0, data)
    <2>1. data \in Seq(Nat)
        BY <1>4, <1>5
    <2> QED
        BY <2>1, HasAll
<1>7. /\ Has(data, 0, head) /\ Has(data, 0 + Len(head), rest)
      /\ (0 + Len(head)) + Len(rest) = Len(data)
    <2>1. Has(data, 0, head) /\ Has(data, 0 + Len(head), rest)
        BY <1>4, <1>5, <1>6, HasParts
    <2>2. Len(head) \in Nat /\ Len(rest) \in Nat /\ Len(data) = Len(head) + Len(rest)
        BY <1>4, <1>5, Joined
    <2> QED
        BY <2>1, <2>2
<1> SUFFICES ASSUME Small(data) PROVE ParseConnect(data) = Got(c, Len(data))
    BY <1>1, <1>6
<1>8. Small(data)
    OBVIOUS
<1>9. Fields(HeadLayout, data, 0, HeadRecord(0, 0, 0, None))
          = Got(HeadRecord(c.level, flags, c.keepalive, <<>>), 0 + Len(head))
    BY <1>3, <1>7, <1>8, Zenon DEF Holding
<1>10. Fields(RestLayout(c.level, flags), data, 0 + Len(head), before)
           = Got(c, (0 + Len(head)) + Len(rest))
    BY <1>3, <1>7, <1>8, Zenon DEF Holding
<1>11. before = [level |-> c.level, clean |-> Bit(flags, 2), keepalive |-> c.keepalive,
                 cid |-> None, props |-> <<>>,
                 willTopic |-> None, willPayload |-> None, willProps |-> <<>>,
                 willQos |-> (flags \div 8) % 4, willRetain |-> Bit(flags, 32),
                 username |-> None, password |-> None]
    <2>1. /\ c.willQos \in 0..3 /\ c.willRetain \in BOOLEAN /\ c.clean \in BOOLEAN
        BY Zenon DEF IsConnect
    <2>2. /\ Bit(flags, 2) = c.clean /\ (flags \div 8) % 4 = c.willQos
          /\ Bit(flags, 32) = c.willRetain
        BY <1>1, <2>1, ConnectFlagsRead
    <2> QED
        BY <1>2, <2>2, Zenon DEF ConnectRecord
<1>12. HeadRecord(0, 0, 0, None)
           = [name |-> None, level |-> 0, flags |-> 0, keepalive |-> 0]
    BY DEF HeadRecord
<1>13. PICK h : h = Fields(HeadLayout, data, 0, HeadRecord(0, 0, 0, None))
    OBVIOUS
<1>14. /\ h.ok /\ h.at = 0 + Len(head) /\ h.val.level = c.level /\ h.val.flags = flags
       /\ h.val.keepalive = c.keepalive
    BY <1>9, <1>13 DEF Got, HeadRecord
<1>15. PICK last : last = Fields(RestLayout(h.val.level, h.val.flags), data, h.at,
               [level |-> h.val.level, clean |-> Bit(h.val.flags, 2),
                keepalive |-> h.val.keepalive, cid |-> None, props |-> <<>>,
                willTopic |-> None, willPayload |-> None, willProps |-> <<>>,
                willQos |-> (h.val.flags \div 8) % 4, willRetain |-> Bit(h.val.flags, 32),
                username |-> None, password |-> None])
    OBVIOUS
<1>16. last = Got(c, (0 + Len(head)) + Len(rest))
    BY <1>10, <1>11, <1>14, <1>15
<1>17. ParseConnect(data) = last
    <2>1. ParseConnect(data) = CHOOSE s \in {IF x.ok THEN
                Fields(RestLayout(x.val.level, x.val.flags), data, x.at,
                       [level |-> x.val.level, clean |-> Bit(x.val.flags, 2),
                        keepalive |-> x.val.keepalive, cid |-> None, props |-> <<>>,
                        willTopic |-> None, willPayload |-> None, willProps |-> <<>>,
                        willQos |-> (x.val.flags \div 8) % 4,
                        willRetain |-> Bit(x.val.flags, 32),
                        username |-> None, password |-> None]) ELSE Bad : x \in {h}} : TRUE
        BY <1>12, <1>13, Zenon DEF ParseConnect, Then, HeadLayout, RestLayout, WillLayout
    <2> QED
        BY <1>14, <1>15, <2>1
<1> QED
    BY <1>7, <1>16, <1>17

\* The options of a filter.
OptionsByte(o) ==
    o.qos + (IF o.noLocal THEN 4 ELSE 0) + (IF o.asPublished THEN 8 ELSE 0)
        + 16 * o.handling

LEMMA FilterIsText ==
    ASSUME NEW s
    PROVE  FilterBytes(s) = EncodeText(s[1]) \o <<OptionsByte(s[2])>>
BY Zenon DEF FilterBytes, OptionsByte

LEMMA OptionsBits ==
    ASSUME NEW q \in 0..3, NEW n \in 0..1, NEW p \in 0..1, NEW h \in 0..3,
           NEW b, b = q + 4 * n + 8 * p + 16 * h
    PROVE  /\ b \in 0..63 /\ b % 4 = q /\ (b \div 4) % 2 = n /\ (b \div 8) % 2 = p
           /\ (b \div 16) % 4 = h
<1>1. b \in 0..63
    OBVIOUS
<1>2. b % 4 = q
    BY SMTT(30)
<1>3. b \div 4 = n + 2 * p + 4 * h
    BY SMTT(30)
<1>4. b \div 8 = p + 2 * h
    BY SMTT(30)
<1>5. b \div 16 = h
    BY SMTT(30)
<1>6. (b \div 4) % 2 = n
    BY <1>3, SMTT(30)
<1>7. (b \div 8) % 2 = p
    BY <1>4, SMTT(30)
<1>8. (b \div 16) % 4 = h
    BY <1>5
<1> QED
    BY <1>1, <1>2, <1>6, <1>7, <1>8

LEMMA OptionsRead ==
    ASSUME NEW o, o.qos \in 0..3, o.handling \in 0..3,
           o.noLocal \in BOOLEAN, o.asPublished \in BOOLEAN,
           NEW b, b = OptionsByte(o)
    PROVE  /\ b \in 0..63 /\ b % 4 = o.qos /\ (b \div 16) % 4 = o.handling
           /\ Bit(b, 4) = o.noLocal /\ Bit(b, 8) = o.asPublished
<1>1. PICK n \in 0..1, p \in 0..1 : /\ n = (IF o.noLocal THEN 1 ELSE 0)
                                    /\ p = (IF o.asPublished THEN 1 ELSE 0)
    OBVIOUS
<1>2. PICK q \in 0..3, h \in 0..3 : q = o.qos /\ h = o.handling
    OBVIOUS
<1>3. b = q + 4 * n + 8 * p + 16 * h
    <2>1. /\ (IF o.noLocal THEN 4 ELSE 0) = 4 * n
          /\ (IF o.asPublished THEN 8 ELSE 0) = 8 * p
        BY <1>1
    <2> QED
        BY <1>2, <2>1 DEF OptionsByte
<1>4. /\ b \in 0..63 /\ b % 4 = q /\ (b \div 4) % 2 = n /\ (b \div 8) % 2 = p
      /\ (b \div 16) % 4 = h
    BY <1>3, OptionsBits
<1>5. Bit(b, 4) = o.noLocal /\ Bit(b, 8) = o.asPublished
    BY <1>1, <1>4 DEF Bit
<1> QED
    BY <1>2, <1>4, <1>5

\* One filter with its options.
LEMMA SubscriptionItem ==
    ASSUME NEW t \in Seq(Nat), NEW n \in Nat, NEW data, NEW at \in Nat,
           Has(data, at, EncodeText(t) \o <<n>>)
    PROVE  Item("subscription", data, at)
               = Got(<<t, n>>, at + Len(EncodeText(t) \o <<n>>))
<1>7. EncodeText(t) \in Seq(Nat) /\ <<n>> \in Seq(Nat)
    <2>1. <<n>> \in Seq(Nat)
        OBVIOUS
    <2> QED
        BY <2>1, TextBytes
<1>1. PICK x \in Seq(Nat), y \in Seq(Nat) : x = EncodeText(t) /\ y = <<n>>
    BY <1>7
<1>2. Has(data, at, x) /\ Has(data, at + Len(x), y)
    BY <1>1, HasParts
<1>3. Len(x) \in Nat /\ Len(y) = 1 /\ Len(x \o y) = Len(x) + 1
    BY <1>1, Joined
<1>4. DecodeText(data, at) = Got(t, at + Len(x))
    BY <1>1, <1>2, TextRead
<1>5. DecodeByte(data, at + Len(x)) = Got(n, (at + Len(x)) + 1)
    BY <1>1, <1>2, <1>3, ByteRead
<1>6. Item("subscription", data, at) = Got(<<t, n>>, (at + Len(x)) + 1)
    BY <1>4, <1>5 DEF Item, Then, Got
<1> QED
    BY <1>1, <1>3, <1>6

LEMMA FilterItem ==
    ASSUME NEW t \in Seq(Nat), NEW data, NEW at \in Nat, Has(data, at, EncodeText(t))
    PROVE  Item("filter", data, at) = Got(t, at + Len(EncodeText(t)))
<1>1. DecodeText(data, at) = Got(t, at + Len(EncodeText(t)))
    BY TextRead
<1> QED
    BY <1>1 DEF Item

\* The request as it is read.
RequestRecord(id, props, filters) == [id |-> id, props |-> props, filters |-> filters]

LEMMA RequestUpdates ==
    ASSUME NEW a, NEW b, NEW c, NEW x, NEW r, r = RequestRecord(a, b, c)
    PROVE  /\ [r EXCEPT !["id"] = x] = RequestRecord(x, b, c)
           /\ [r EXCEPT !["props"] = x] = RequestRecord(a, x, c)
           /\ [r EXCEPT !["filters"] = x] = RequestRecord(a, b, x)
<1>1. [r EXCEPT !["id"] = x] = RequestRecord(x, b, c)
    BY DEF RequestRecord
<1>2. [r EXCEPT !["props"] = x] = RequestRecord(a, x, c)
    BY DEF RequestRecord
<1>3. [r EXCEPT !["filters"] = x] = RequestRecord(a, b, x)
    BY DEF RequestRecord
<1> QED
    BY <1>1, <1>2, <1>3

\* The bytes are read as a request.
HoldsRequest(kind, l, val, data) ==
    /\ data \in Seq(Nat)
    /\ Small(data) => ParseFilters(kind, data, l) = Got(val, Len(data))

\* A request whose list is read.
LEMMA RequestRead ==
    ASSUME NEW kind \in {"filter", "subscription"}, NEW id \in Nat, NEW props, IsProps(props),
           NEW l, l # 5 => props = <<>>, NEW list, NEW bytes,
           HoldsRest(kind, list, bytes),
           NEW val, val = RequestRecord(id, props, list),
           NEW first, first = Word(id) \o PropsBytes(props, l),
           NEW data, data = first \o bytes
    PROVE  HoldsRequest(kind, l, val, data)
<1>1. PICK r0, r1, r2, r3 :
          /\ r0 = RequestRecord(None, <<>>, <<>>) /\ r1 = RequestRecord(id, <<>>, <<>>)
          /\ r2 = RequestRecord(id, props, <<>>) /\ r3 = RequestRecord(id, props, list)
    OBVIOUS
<1>2. Holding(<<<<"id", "u16">>>>, r0, r1, Word(id))
    <2>1. [r0 EXCEPT !["id"] = id] = r1
        BY <1>1 DEF RequestRecord
    <2>2. Holding(<<<<"id", "u16">>>>, r0, [r0 EXCEPT !["id"] = id], Word(id))
        BY WordHeld, HoldingOne, Names
    <2> QED
        BY <2>1, <2>2
<1>3. Holding(PropsField("props", l), r1, r2, PropsBytes(props, l))
    <2>1. [r1 EXCEPT !["props"] = props] = r2
        BY <1>1 DEF RequestRecord
    <2>2. l # 5 => r1 = r2
        BY <1>1
    <2>3. Holding(PropsField("props", l), r1,
                  IF l = 5 THEN [r1 EXCEPT !["props"] = props] ELSE r1,
                  PropsBytes(props, l))
        BY PropsPart, Names
    <2>4. (IF l = 5 THEN [r1 EXCEPT !["props"] = props] ELSE r1) = r2
        BY <2>1, <2>2
    <2> QED
        BY <2>3, <2>4
<1>4. HoldingRest(<<<<"filters", kind>>>>, r2, r3, bytes)
    <2>1. [r2 EXCEPT !["filters"] = list] = r3
        BY <1>1 DEF RequestRecord
    <2>2. kind \in FieldTypes /\ "filters" \in FieldNames
        BY Names
    <2>3. HoldingRest(<<<<"filters", kind>>>>, r2, [r2 EXCEPT !["filters"] = list], bytes)
        BY <2>2, HoldingLast
    <2> QED
        BY <2>1, <2>3
<1>5. Holding(<<<<"id", "u16">>>> \o PropsField("props", l), r0, r2,
              Word(id) \o PropsBytes(props, l))
    BY <1>2, <1>3, HoldingConcat
<1>6. HoldingRest(<<<<"id", "u16">>>> \o PropsField("props", l) \o <<<<"filters", kind>>>>,
                  r0, r3, data)
    BY <1>4, <1>5, HoldingThenRest
<1>7. data \in Seq(Nat)
    BY <1>6 DEF HoldingRest
<1>11. Len(data) \in Nat
    BY <1>7
<1>12. Has(data, 0, data)
    BY <1>7, HasAll, Zenon
<1>8. Has(data, 0, data) /\ 0 + Len(data) = Len(data)
    BY <1>11, <1>12
<1>9. Fields(<<<<"id", "u16">>>> \o PropsField("props", l) \o <<<<"filters", kind>>>>,
             data, 0, r0) = Got(r3, 0 + Len(data)) \/ ~Small(data)
    BY <1>6, <1>8, Zenon DEF HoldingRest
<1>10. r0 = [id |-> None, props |-> <<>>, filters |-> <<>>]
    BY <1>1 DEF RequestRecord
<1> QED
    BY <1>1, <1>7, <1>8, <1>9, <1>10, Zenon
    DEF ParseFilters, HoldsRequest

\* A list of filters as a function on its indices.
LEMMA ListOfFilters ==
    ASSUME NEW S, NEW list, Len(list) \in Nat, list = [i \in 1..Len(list) |-> list[i]],
           \A i \in 1..Len(list) : list[i] \in S
    PROVE  list \in Seq(S) /\ DOMAIN list = 1..Len(list)
<1>1. PICK n \in Nat : n = Len(list)
    OBVIOUS
<1>2. list = [i \in 1..n |-> list[i]] /\ \A i \in 1..n : list[i] \in S
    BY <1>1
<1>3. list \in [1..n -> S]
    BY <1>2
<1>4. list \in Seq(S)
    BY <1>3
<1> QED
    BY <1>1, <1>2, <1>4

LEMMA UnsubscribeRead ==
    ASSUME NEW val, NEW l, IsRequest(val, l, IsText),
           NEW data, data = FiltersBytes(val, l, EncodeText)
    PROVE  /\ data \in Seq(Nat)
           /\ Small(data) => ParseUnsubscribe(data, l) = Got(val, Len(data))
<1>1. PICK id, props, list : id = val.id /\ props = val.props /\ list = val.filters
    OBVIOUS
<1>2. /\ id \in Nat /\ IsProps(props) /\ (l # 5 => props = <<>>)
      /\ Len(list) \in Nat /\ list = [i \in 1..Len(list) |-> list[i]]
      /\ \A i \in 1..Len(list) : IsText(list[i])
      /\ val = RequestRecord(id, props, list)
    <2>1. /\ val = [id |-> id, props |-> props, filters |-> list]
          /\ IsValue("u16", id) /\ IsProps(props) /\ (l # 5 => props = <<>>)
          /\ Len(list) \in Nat /\ list = [i \in 1..Len(list) |-> list[i]]
          /\ \A i \in 1..Len(list) : IsText(list[i])
        BY <1>1, Zenon DEF IsRequest
    <2>2. id \in Nat
        BY <2>1 DEF IsValue
    <2> QED
        BY <2>1, <2>2, Zenon DEF RequestRecord
<1>3. list \in Seq(Seq(Nat)) /\ DOMAIN list = 1..Len(list)
    <2>1. \A i \in 1..Len(list) : list[i] \in Seq(Nat)
        BY <1>2, TextIsNumbers
    <2> QED
        BY <1>2, <2>1, ListOfFilters
<1>4. PICK b : b = [i \in 1..Len(list) |-> EncodeText(list[i])]
    OBVIOUS
<1>5. /\ b \in Seq(Seq(Nat)) /\ Len(b) = Len(list)
      /\ \A i \in 1..Len(list) : b[i] = EncodeText(list[i])
    <2>1. \A i \in 1..Len(list) : EncodeText(list[i]) \in Seq(Nat)
        BY <1>3, TextBytes
    <2>2. b \in [1..Len(list) -> Seq(Nat)]
        BY <1>4, <2>1
    <2> QED
        BY <1>2, <1>4, <2>2
<1>6. \A i \in 1..Len(list) :
          /\ Len(b[i]) > 0
          /\ \A d : \A at \in Nat : Has(d, at, b[i])
                => Item("filter", d, at) = Got(list[i], at + Len(b[i]))
    <2> TAKE i \in 1..Len(list)
    <2>1. list[i] \in Seq(Nat) /\ b[i] = EncodeText(list[i])
        BY <1>3, <1>5
    <2>3. PICK t \in Seq(Nat) : t = list[i] /\ b[i] = EncodeText(t)
        BY <2>1
    <2>4. Len(EncodeText(t)) = 2 + Len(t) /\ Len(t) \in Nat
        BY TextBytes
    <2>2. Len(b[i]) > 0
        BY <2>3, <2>4
    <2> QED
        BY <2>1, <2>2, FilterItem
<1>7. HoldsRest("filter", list, FlattenSeq(b))
    BY <1>3, <1>5, <1>6, ListHeld
<1>8. data = Word(id) \o PropsBytes(props, l) \o FlattenSeq(b)
    BY <1>1, <1>3, <1>4, Zenon DEF FiltersBytes
<1>9. HoldsRequest("filter", l, val, data)
    <2>1. PICK kind \in {"filter", "subscription"} : kind = "filter"
        OBVIOUS
    <2>2. id \in Nat /\ IsProps(props) /\ (l # 5 => props = <<>>)
        BY <1>2, Zenon
    <2>3. PICK bytes, first : /\ bytes = FlattenSeq(b)
                              /\ first = Word(id) \o PropsBytes(props, l)
        OBVIOUS
    <2>4. /\ HoldsRest(kind, list, bytes) /\ data = first \o bytes
          /\ val = RequestRecord(id, props, list)
        BY <1>2, <1>7, <1>8, <2>1, <2>3
    <2>5. HoldsRequest(kind, l, val, data)
        BY <2>2, <2>3, <2>4, RequestRead, Zenon
    <2> QED
        BY <2>1, <2>5
<1> QED
    BY <1>9 DEF ParseUnsubscribe, HoldsRequest

\* What is read of a filter and its options.
Entry(s) == <<s[1], OptionsByte(s[2])>>

LEMMA FilterRead ==
    ASSUME NEW s, NEW l, IsFilter(s, l)
    PROVE  /\ s[1] \in Seq(Nat) /\ OptionsByte(s[2]) \in Nat
           /\ <<Entry(s)[1], SubscribeOptions(Entry(s)[2], l)>> = s
<1>1. PICK t, o : t = s[1] /\ o = s[2]
    OBVIOUS
<1>2. /\ s = <<t, [qos |-> o.qos, noLocal |-> o.noLocal,
                   asPublished |-> o.asPublished, handling |-> o.handling]>>
      /\ IsText(t) /\ o.qos \in 0..3 /\ o.handling \in 0..3
      /\ o.noLocal \in BOOLEAN /\ o.asPublished \in BOOLEAN
      /\ l # 5 => ~o.noLocal /\ ~o.asPublished /\ o.handling = 0
    BY <1>1, Zenon DEF IsFilter
<1>3. PICK b : b = OptionsByte(o)
    OBVIOUS
<1>4. /\ b \in 0..63 /\ b % 4 = o.qos /\ (b \div 16) % 4 = o.handling
      /\ Bit(b, 4) = o.noLocal /\ Bit(b, 8) = o.asPublished
    BY <1>2, <1>3, OptionsRead
<1>5. SubscribeOptions(b, l) = [qos |-> o.qos, noLocal |-> o.noLocal,
                                asPublished |-> o.asPublished, handling |-> o.handling]
    <2>1. PICK q, n, p, h : q = o.qos /\ n = o.noLocal /\ p = o.asPublished
                            /\ h = o.handling
        OBVIOUS
    <2>2. /\ b % 4 = q /\ (b \div 16) % 4 = h /\ Bit(b, 4) = n /\ Bit(b, 8) = p
          /\ n \in BOOLEAN /\ p \in BOOLEAN /\ (l # 5 => ~n /\ ~p /\ h = 0)
        BY <1>2, <1>4, <2>1
    <2>3. /\ (l = 5 /\ Bit(b, 4)) = n /\ (l = 5 /\ Bit(b, 8)) = p
          /\ (IF l = 5 THEN (b \div 16) % 4 ELSE 0) = h
        BY <2>2
    <2> QED
        BY <2>1, <2>2, <2>3, Zenon DEF SubscribeOptions
<1>6. Entry(s)[1] = t /\ Entry(s)[2] = b
    BY <1>1, <1>3 DEF Entry
<1>7. t \in Seq(Nat) /\ b \in Nat
    BY <1>2, <1>4, TextIsNumbers
<1> QED
    BY <1>1, <1>2, <1>3, <1>5, <1>6, <1>7

\* The options are read from their bytes.
LEMMA SubscribeFromRaw ==
    ASSUME NEW data, NEW l, NEW id, NEW props, NEW entries, NEW list, NEW at,
           ParseFilters("subscription", data, l)
               = Got(RequestRecord(id, props, entries), at),
           list = [i \in DOMAIN entries |->
                      <<entries[i][1], SubscribeOptions(entries[i][2], l)>>]
    PROVE  ParseSubscribe(data, l) = Got(RequestRecord(id, props, list), at)
<1>1. PICK raw : raw = RequestRecord(id, props, entries)
    OBVIOUS
<1>2. /\ raw.filters = entries
      /\ [raw EXCEPT !.filters = list] = RequestRecord(id, props, list)
    <2>1. raw.filters = entries
        BY <1>1 DEF RequestRecord
    <2>2. PICK fs : fs = list
        OBVIOUS
    <2>3. [raw EXCEPT !.filters = fs] = RequestRecord(id, props, fs)
        BY <1>1 DEF RequestRecord
    <2> QED
        BY <2>1, <2>2, <2>3
<1>3. PICK r : r = ParseFilters("subscription", data, l)
    OBVIOUS
<1>4. r.ok /\ r.val = raw /\ r.at = at
    BY <1>1, <1>3 DEF Got
<1>5. ParseSubscribe(data, l)
        = Then(r, LAMBDA x : Got([x.val EXCEPT !.filters =
              [i \in DOMAIN x.val.filters |->
                  <<x.val.filters[i][1], SubscribeOptions(x.val.filters[i][2], l)>>]], x.at))
    BY <1>3, Zenon DEF ParseSubscribe
<1>6. [i \in DOMAIN r.val.filters |->
          <<r.val.filters[i][1], SubscribeOptions(r.val.filters[i][2], l)>>] = list
    BY <1>2, <1>4
<1>7. Then(r, LAMBDA x : Got([x.val EXCEPT !.filters =
              [i \in DOMAIN x.val.filters |->
                  <<x.val.filters[i][1], SubscribeOptions(x.val.filters[i][2], l)>>]], x.at))
        = Got([r.val EXCEPT !.filters = list], r.at)
    BY <1>4, <1>6 DEF Then
<1> QED
    BY <1>2, <1>4, <1>5, <1>7

LEMMA SubscribeRead ==
    ASSUME NEW val, NEW l, IsRequest(val, l, LAMBDA s : IsFilter(s, l)),
           NEW data, data = FiltersBytes(val, l, FilterBytes)
    PROVE  /\ data \in Seq(Nat)
           /\ Small(data) => ParseSubscribe(data, l) = Got(val, Len(data))
<1>1. PICK id, props, list : id = val.id /\ props = val.props /\ list = val.filters
    OBVIOUS
<1>2. /\ id \in Nat /\ IsProps(props) /\ (l # 5 => props = <<>>)
      /\ Len(list) \in Nat /\ list = [i \in 1..Len(list) |-> list[i]]
      /\ \A i \in 1..Len(list) : IsFilter(list[i], l)
      /\ val = RequestRecord(id, props, list)
    <2>1. /\ val = [id |-> id, props |-> props, filters |-> list]
          /\ IsValue("u16", id) /\ IsProps(props) /\ (l # 5 => props = <<>>)
          /\ Len(list) \in Nat /\ list = [i \in 1..Len(list) |-> list[i]]
          /\ \A i \in 1..Len(list) : IsFilter(list[i], l)
        BY <1>1, Zenon DEF IsRequest
    <2>2. id \in Nat
        BY <2>1 DEF IsValue
    <2> QED
        BY <2>1, <2>2, Zenon DEF RequestRecord
<1>3. PICK n \in Nat : n = Len(list)
    BY <1>2
<1>4. DOMAIN list = 1..n
    BY <1>2, <1>3
<1>5. PICK entries : entries = [i \in 1..n |-> Entry(list[i])]
    OBVIOUS
<1>6. /\ entries \in Seq(Seq(Nat) \X Nat) /\ Len(entries) = n /\ DOMAIN entries = 1..n
      /\ \A i \in 1..n : /\ entries[i] = Entry(list[i])
                         /\ list[i][1] \in Seq(Nat) /\ OptionsByte(list[i][2]) \in Nat
    <2>1. \A i \in 1..n : /\ list[i][1] \in Seq(Nat) /\ OptionsByte(list[i][2]) \in Nat
        BY <1>2, <1>3, FilterRead
    <2>2. \A i \in 1..n : Entry(list[i]) \in Seq(Nat) \X Nat
        BY <2>1 DEF Entry
    <2>3. entries \in [1..n -> Seq(Nat) \X Nat]
        BY <1>5, <2>2
    <2>4. entries \in Seq(Seq(Nat) \X Nat) /\ Len(entries) = n
        BY <1>5, <2>3
    <2> QED
        BY <1>5, <2>1, <2>4
<1>7. PICK b : b = [i \in 1..n |-> FilterBytes(list[i])]
    OBVIOUS
<1>8. \A i \in 1..n : /\ b[i] = EncodeText(list[i][1]) \o <<OptionsByte(list[i][2])>>
                      /\ b[i] \in Seq(Nat) /\ Len(b[i]) > 0
    <2> TAKE i \in 1..n
    <2>1. PICK t \in Seq(Nat), o \in Nat : t = list[i][1] /\ o = OptionsByte(list[i][2])
        BY <1>6
    <2>2. b[i] = EncodeText(t) \o <<o>>
        BY <1>7, <2>1, FilterIsText
    <2>3. EncodeText(t) \in Seq(Nat) /\ <<o>> \in Seq(Nat) /\ Len(<<o>>) = 1
        BY TextBytes
    <2>4. EncodeText(t) \o <<o>> \in Seq(Nat) /\ Len(EncodeText(t) \o <<o>>) > 0
        BY <2>3, Joined
    <2> QED
        BY <2>1, <2>2, <2>4
<1>9. b \in Seq(Seq(Nat)) /\ Len(b) = n
    <2>1. b \in [1..n -> Seq(Nat)]
        BY <1>7, <1>8
    <2> QED
        BY <1>7, <2>1
<1>10. \A i \in 1..n :
           /\ Len(b[i]) > 0
           /\ \A d : \A at \in Nat : Has(d, at, b[i])
                 => Item("subscription", d, at) = Got(entries[i], at + Len(b[i]))
    <2> TAKE i \in 1..n
    <2>1. PICK t \in Seq(Nat), o \in Nat : t = list[i][1] /\ o = OptionsByte(list[i][2])
        BY <1>6
    <2>2. b[i] = EncodeText(t) \o <<o>> /\ entries[i] = <<t, o>> /\ Len(b[i]) > 0
        BY <1>6, <1>8, <2>1 DEF Entry
    <2> QED
        BY <2>2, SubscriptionItem
<1>11. HoldsRest("subscription", entries, FlattenSeq(b))
    BY <1>6, <1>9, <1>10, ListHeld
<1>12. PICK bytes, first : bytes = FlattenSeq(b) /\ first = Word(id) \o PropsBytes(props, l)
    OBVIOUS
<1>13. data = first \o bytes
    BY <1>1, <1>4, <1>7, <1>12, Zenon DEF FiltersBytes
<1>14. HoldsRequest("subscription", l, RequestRecord(id, props, entries), data)
    <2>1. PICK kind \in {"filter", "subscription"} : kind = "subscription"
        OBVIOUS
    <2>2. id \in Nat /\ IsProps(props) /\ (l # 5 => props = <<>>)
        BY <1>2, Zenon
    <2>3. HoldsRest(kind, entries, bytes)
        BY <1>11, <1>12, <2>1
    <2>4. PICK raw : raw = RequestRecord(id, props, entries)
        OBVIOUS
    <2>5. HoldsRequest(kind, l, raw, data)
        BY <1>12, <1>13, <2>2, <2>3, <2>4, RequestRead, Zenon
    <2> QED
        BY <2>1, <2>4, <2>5
<1>15. list = [i \in DOMAIN entries |->
                  <<entries[i][1], SubscribeOptions(entries[i][2], l)>>]
    <2>1. \A i \in 1..n : <<entries[i][1], SubscribeOptions(entries[i][2], l)>> = list[i]
        BY <1>2, <1>3, <1>6, FilterRead
    <2> QED
        BY <1>2, <1>3, <1>6, <2>1
<1>16. data \in Seq(Nat)
    BY <1>14 DEF HoldsRequest
<1>17. ASSUME Small(data) PROVE ParseSubscribe(data, l) = Got(val, Len(data))
    <2>1. ParseFilters("subscription", data, l)
              = Got(RequestRecord(id, props, entries), Len(data))
        BY <1>14, <1>17 DEF HoldsRequest
    <2> QED
        BY <1>2, <1>15, <2>1, SubscribeFromRaw
<1> QED
    BY <1>16, <1>17

\* The numbers of acknowledgements.
AckBody(id, rc, l) == Word(id) \o When(l = 5, <<rc>>) \o PropsBytes(<<>>, l)

LEMMA NoProps == EncodeProps(<<>>) = <<0>> /\ IsProps(<<>>)
<1>1. DOMAIN <<>> = {}
    OBVIOUS
<1>2. EncodeProps(<<>>) = <<0>>
    BY <1>1, Zenon DEF EncodeProps
<1>3. <<>> = [id \in {} |-> <<>>[id]]
    OBVIOUS
<1>4. IsProps(<<>>)
    BY <1>1, <1>3 DEF IsProps
<1> QED
    BY <1>2, <1>4

LEMMA AckBodyBytes ==
    ASSUME NEW id \in Nat, NEW rc \in Nat, NEW l
    PROVE  /\ AckBody(id, rc, l) \in Seq(Nat)
           /\ Len(AckBody(id, rc, l)) <= 4 /\ Len(AckBody(id, rc, l)) \in Nat
           /\ Has(AckBody(id, rc, l), 0, Word(id))
<1>1. PICK w \in Seq(Nat) : w = Word(id)
    BY WordBytes
<1>2. Len(w) = 2
    BY <1>1, WordBytes
<1>3. PICK x \in Seq(Nat), y \in Seq(Nat) :
          /\ x = When(l = 5, <<rc>>) /\ y = PropsBytes(<<>>, l)
    <2>1. <<rc>> \in Seq(Nat) /\ <<0>> \in Seq(Nat) /\ <<>> \in Seq(Nat)
        OBVIOUS
    <2>2. When(l = 5, <<rc>>) \in Seq(Nat)
        BY <2>1 DEF When
    <2>3. PropsBytes(<<>>, l) \in Seq(Nat)
        BY <2>1, NoProps, Zenon DEF When, PropsBytes
    <2> QED
        BY <2>2, <2>3
<1>4. Len(x) \in 0..1 /\ Len(y) \in 0..1
    <2>1. Len(<<rc>>) = 1 /\ Len(<<0>>) = 1 /\ Len(<<>>) = 0
        OBVIOUS
    <2>2. x = <<rc>> \/ x = <<>>
        BY <1>3 DEF When
    <2>3. y = <<0>> \/ y = <<>>
        BY <1>3, NoProps DEF When, PropsBytes
    <2> QED
        BY <2>1, <2>2, <2>3
<1>5. PICK wx \in Seq(Nat), body \in Seq(Nat) : wx = w \o x /\ body = wx \o y
    <2>1. w \o x \in Seq(Nat) /\ (w \o x) \o y \in Seq(Nat)
        BY Joined
    <2> QED
        BY <2>1
<1>6. Len(wx) = 2 + Len(x) /\ Len(body) = Len(wx) + Len(y)
    <2>1. Len(w \o x) = Len(w) + Len(x)
        BY Joined
    <2>2. Len(wx \o y) = Len(wx) + Len(y)
        BY Joined
    <2> QED
        BY <1>2, <1>5, <2>1, <2>2
<1>7. Has(body, 0, w)
    <2>1. Has(body, 0, body)
        BY HasAll
    <2>2. Has(body, 0, wx)
        BY <1>5, <2>1, HasParts
    <2> QED
        BY <1>5, <2>2, HasParts
<1>8. AckBody(id, rc, l) = body
    BY <1>1, <1>3, <1>5, Zenon DEF AckBody
<1>9. Len(body) <= 4 /\ Len(body) \in Nat
    <2>1. PICK a \in 0..1, b \in 0..1 : a = Len(x) /\ b = Len(y)
        BY <1>4
    <2>2. Len(body) = (2 + a) + b
        BY <1>6, <2>1
    <2> QED
        BY <2>2
<1> QED
    BY <1>1, <1>7, <1>8, <1>9

LEMMA AckPacket ==
    ASSUME NEW type, NEW id, NEW rc, NEW l
    PROVE  EncodeAck(type, id, rc, l)
               = BuildPacket(type, IF type = 6 THEN 2 ELSE 0, AckBody(id, rc, l))
BY Zenon DEF EncodeAck, AckBody, PacketType

LEMMA AckRead ==
    ASSUME NEW id \in Nat, NEW rc \in Nat, NEW l
    PROVE  ParsePacketId(AckBody(id, rc, l)) = Got(id, 2)
<1>1. PICK data : data = AckBody(id, rc, l)
    OBVIOUS
<1>2. Has(data, 0, Word(id))
    BY <1>1, AckBodyBytes
<1>3. DecodeWord(data, 0) = Got(id, 0 + 2)
    BY <1>2, WordRead
<1> QED
    BY <1>1, <1>3 DEF ParsePacketId

\* A DISCONNECT with its reason.
EndsWith(rc, l, data) ==
    /\ data \in Seq(Nat)
    /\ Small(data) =>
          \E at : ParseDisconnect(data, l) = Got([rc |-> rc, props |-> <<>>], at)

LEMMA DisconnectRead ==
    ASSUME NEW rc \in 0..255, NEW l, l \in 3..5, l < 5 => rc = 0,
           NEW data, data = When(l = 5, <<rc>> \o EncodeProps(<<>>))
    PROVE  EndsWith(rc, l, data)
<1> SUFFICES /\ data \in Seq(Nat)
             /\ Small(data) =>
                   \E at : ParseDisconnect(data, l) = Got([rc |-> rc, props |-> <<>>], at)
    BY Zenon DEF EndsWith
<1>1. CASE l # 5
    <2>1. data = <<>> /\ rc = 0
        BY <1>1 DEF When
    <2>3. <<>> \in Seq(Nat)
        OBVIOUS
    <2>2. data \in Seq(Nat)
        BY <2>1, <2>3, Zenon
    <2> QED
        BY <2>1, <2>2 DEF ParseDisconnect
<1>2. CASE l = 5
    <2>1. PICK c \in Seq(Nat), p \in Seq(Nat) : c = <<rc>> /\ p = EncodeProps(<<>>)
        <3>2. <<rc>> \in Seq(Nat) /\ <<0>> \in Seq(Nat)
            OBVIOUS
        <3>1. <<rc>> \in Seq(Nat) /\ EncodeProps(<<>>) \in Seq(Nat)
            BY <3>2, NoProps
        <3> QED
            BY <3>1
    <2>2. data = c \o p /\ Len(c) = 1 /\ Len(p) = 1
        BY <1>2, <2>1, NoProps DEF When
    <2>3. data \in Seq(Nat) /\ Len(data) = 2
        <3>1. c \o p \in Seq(Nat) /\ Len(c \o p) = Len(c) + Len(p)
            BY Joined
        <3>2. Len(data) = 1 + 1
            BY <2>2, <3>1, Zenon
        <3>3. data \in Seq(Nat)
            BY <2>2, <3>1, Zenon
        <3> QED
            BY <3>2, <3>3
    <2>4. data # <<>> /\ Len(data) > 1
        <3>1. Len(<<>>) = 0 /\ 0 # 2
            OBVIOUS
        <3>2. data # <<>>
            BY <2>3, <3>1, Zenon
        <3>3. Len(data) > 1
            <4>1. PICK n : n = Len(data)
                OBVIOUS
            <4>2. n = 2
                BY <2>3, <4>1
            <4>3. n > 1
                BY <4>2
            <4> QED
                BY <4>1, <4>3, Zenon
        <3> QED
            BY <3>2, <3>3
    <2>5. PICK a, b, r : a = <<<<"rc", "byte">>>> /\ b = <<<<"props", "props">>>>
                         /\ r = [rc |-> 0, props |-> <<>>]
        OBVIOUS
    <2>6. ParseDisconnect(data, l) = Fields(a \o b, data, 0, r)
        <3>1. ~(data = <<>> \/ l < 5)
            BY <1>2, <2>4
        <3>2. When(Len(data) > 1, b) = b
            BY <2>4 DEF When
        <3> QED
            BY <2>5, <3>1, <3>2, Zenon DEF ParseDisconnect
    <2>7. PICK r1 : r1 = [rc |-> rc, props |-> <<>>]
        OBVIOUS
    <2>8. Holding(a, r, r1, c)
        <3>3. Holds("byte", rc, c)
            BY <2>1, ByteHeld
        <3>1. Holding(a, r, [r EXCEPT !["rc"] = rc], c)
            BY <2>5, <3>3, HoldingOne, Names
        <3>2. [r EXCEPT !["rc"] = rc] = r1
            BY <2>5, <2>7
        <3> QED
            BY <3>1, <3>2
    <2>9. Holding(b, r1, r1, p)
        <3>1. Holding(b, r1, [r1 EXCEPT !["props"] = <<>>], p)
            BY <2>1, <2>5, NoProps, PropsHeld, HoldingOne, Names
        <3>2. [r1 EXCEPT !["props"] = <<>>] = r1
            BY <2>7
        <3> QED
            BY <3>1, <3>2
    <2>10. Holding(a \o b, r, r1, c \o p)
        BY <2>8, <2>9, HoldingConcat
    <2>11. Has(data, 0, data)
        BY <2>3, HasAll
    <2>12. Small(data) => Fields(a \o b, data, 0, r) = Got(r1, 0 + Len(data))
        BY <2>2, <2>10, <2>11, Zenon DEF Holding
    <2> QED
        BY <2>3, <2>6, <2>7, <2>12
<1> QED
    BY <1>1, <1>2

(***************************************************************************)
(* An empty body is malformed for every type that has fields.              *)
(***************************************************************************)
LEMMA FailsOn ==
    ASSUME NEW read, NEW field, NEW data,
           ~read.ok \/ ~DecodeField(field[2], data, read.at).ok
    PROVE  NextField(read, field, data) = Bad
<1>1. CASE ~read.ok
    BY <1>1 DEF NextField, Then
<1>2. CASE ~DecodeField(field[2], data, read.at).ok
    <2>1. PICK v : v = DecodeField(field[2], data, read.at)
        OBVIOUS
    <2>2. ~v.ok
        BY <1>2, <2>1
    <2> QED
        BY <1>1, <2>1, <2>2 DEF NextField, Then
<1> QED
    BY <1>1, <1>2

StartsWith(layout, field) ==
    layout \in Layouts /\ Len(layout) > 0 /\ layout[1] = field

LEMMA FieldsFail ==
    ASSUME NEW layout, NEW field, StartsWith(layout, field), NEW data, NEW at, NEW record,
           ~DecodeField(field[2], data, at).ok
    PROVE  ~Fields(layout, data, at, record).ok
<1>0. layout \in Layouts /\ Len(layout) > 0 /\ layout[1] = field
    BY DEF StartsWith
<1>1. PICK f : /\ Reads(f, layout, data, at, record)
               /\ Fields(layout, data, at, record) = f[Len(layout)]
    BY <1>0, ReadsExist
<1>2. PICK n \in Nat : n = Len(layout) /\ n > 0
    BY <1>0 DEF Layouts
<1>3. f[0] = Got(record, at)
    BY <1>0, <1>1, ReadFirst, Zenon
<1>4. \A k \in Nat : k < n => f[k + 1] = NextField(f[k], layout[k + 1], data)
    <2> TAKE k \in Nat
    <2> SUFFICES ASSUME k < n PROVE f[k + 1] = NextField(f[k], layout[k + 1], data)
        OBVIOUS
    <2>1. k < Len(layout)
        BY <1>2
    <2> QED
        BY <1>0, <1>1, <2>1, ReadStep, Zenon
<1>5. f[1] = Bad
    <2>1. f[0 + 1] = NextField(f[0], layout[0 + 1], data)
        BY <1>2, <1>4
    <2>2. f[1] = NextField(f[0], field, data)
        BY <1>0, <2>1
    <2>3. f[0].at = at
        BY <1>3 DEF Got
    <2> QED
        BY <2>2, <2>3, FailsOn
<1> DEFINE T == {k \in Nat : k + 1 <= n => f[k + 1] = Bad}
<1>6. 0 \in T
    BY <1>5
<1>7. ASSUME NEW k \in Nat, k \in T PROVE k + 1 \in T
    <2> SUFFICES ASSUME (k + 1) + 1 <= n PROVE f[(k + 1) + 1] = Bad
        OBVIOUS
    <2>1. f[k + 1] = Bad
        BY <1>7
    <2>2. f[(k + 1) + 1] = NextField(f[k + 1], layout[(k + 1) + 1], data)
        BY <1>4
    <2>3. ~f[k + 1].ok
        BY <2>1 DEF Bad
    <2> QED
        BY <2>2, <2>3, FailsOn
<1>8. Nat \subseteq T
    <2> HIDE DEF T
    <2> QED
        BY <1>6, <1>7, SetInduction
<1>9. f[n] = Bad
    <2>1. n - 1 \in Nat /\ (n - 1) + 1 = n
        BY <1>2
    <2> QED
        BY <1>8, <2>1
<1> QED
    BY <1>1, <1>2, <1>9 DEF Bad

LEMMA StartOfConcat ==
    ASSUME NEW a, NEW field, StartsWith(a, field), NEW b \in Layouts
    PROVE  StartsWith(a \o b, field)
<1>1. a \in Layouts /\ Len(a) > 0 /\ a[1] = field
    BY DEF StartsWith
<1>2. /\ a \o b \in Layouts /\ Len(a) \in Nat /\ Len(b) \in Nat
      /\ Len(a \o b) = Len(a) + Len(b)
      /\ \A i \in 1..Len(a) : (a \o b)[i] = a[i]
    BY <1>1, ConcatTypes DEF Layouts
<1>3. Len(a \o b) > 0 /\ 1 \in 1..Len(a)
    BY <1>1, <1>2
<1> QED
    BY <1>1, <1>2, <1>3 DEF StartsWith

LEMMA StartOfOne ==
    ASSUME NEW name \in FieldNames, NEW type \in FieldTypes
    PROVE  StartsWith(<<<<name, type>>>>, <<name, type>>)
<1>1. <<<<name, type>>>> \in Layouts
    BY OneField
<1> QED
    BY <1>1 DEF StartsWith

LEMMA PartLayouts ==
    ASSUME NEW name \in FieldNames, NEW type \in FieldTypes, NEW test \in BOOLEAN, NEW l
    PROVE  /\ When(test, <<<<name, type>>>>) \in Layouts
           /\ PropsField(name, l) \in Layouts
<1>1. <<>> \in Layouts
    BY DEF Layouts
<1>2. <<<<name, type>>>> \in Layouts /\ <<<<name, "props">>>> \in Layouts
    BY OneField, Names
<1> QED
    BY <1>1, <1>2, Zenon DEF When, PropsField

LEMMA NothingRead ==
    /\ ~DecodeWord(<<>>, 0).ok
    /\ ~DecodeField("u16", <<>>, 0).ok /\ ~DecodeField("text", <<>>, 0).ok
<1>1. Len(<<>>) = 0 /\ 0 + 2 > 0
    OBVIOUS
<1>2. DecodeWord(<<>>, 0) = Bad
    BY <1>1 DEF DecodeWord
<1>3. ~Bad.ok
    BY DEF Bad
<1>4. DecodeText(<<>>, 0) = Bad
    BY <1>2, <1>3 DEF DecodeText, Then
<1>5. DecodeField("u16", <<>>, 0) = DecodeWord(<<>>, 0)
    BY DEF DecodeField, DecodeValue
<1>6. DecodeField("text", <<>>, 0) = DecodeText(<<>>, 0)
    BY DEF DecodeField, DecodeValue
<1> QED
    BY <1>2, <1>3, <1>4, <1>5, <1>6

LEMMA NothingConnects == ~ParseConnect(<<>>).ok
<1>1. StartsWith(HeadLayout, <<"name", "text">>)
    <2>1. PICK a \in Layouts, b \in Layouts, c \in Layouts, d \in Layouts :
            /\ a = <<<<"name", "text">>>> /\ b = <<<<"level", "byte">>>>
            /\ c = <<<<"flags", "byte">>>> /\ d = <<<<"keepalive", "u16">>>>
        <3>1. /\ <<<<"name", "text">>>> \in Layouts /\ <<<<"level", "byte">>>> \in Layouts
              /\ <<<<"flags", "byte">>>> \in Layouts
              /\ <<<<"keepalive", "u16">>>> \in Layouts
            BY OneField, Names
        <3> QED
            BY <3>1
    <2>2. StartsWith(a, <<"name", "text">>)
        BY <2>1, StartOfOne, Names
    <2>3. StartsWith(a \o b, <<"name", "text">>)
        BY <2>2, StartOfConcat, Zenon
    <2>4. StartsWith((a \o b) \o c, <<"name", "text">>)
        BY <2>3, StartOfConcat, Zenon
    <2>5. StartsWith(((a \o b) \o c) \o d, <<"name", "text">>)
        BY <2>4, StartOfConcat, Zenon
    <2> QED
        BY <2>1, <2>5, HeadInARow, Zenon
<1>2. PICK h : h = Fields(HeadLayout, <<>>, 0,
                          [name |-> None, level |-> 0, flags |-> 0, keepalive |-> 0])
    OBVIOUS
<1>3. ~h.ok
    <2>1. PICK field : field = <<"name", "text">> /\ field[2] = "text"
        BY <<"name", "text">>[2] = "text"
    <2> QED
        BY <1>1, <1>2, <2>1, FieldsFail, NothingRead
<1>4. ParseConnect(<<>>) = Then(h, LAMBDA x :
          Fields(RestLayout(x.val.level, x.val.flags), <<>>, x.at,
                 [level |-> x.val.level, clean |-> Bit(x.val.flags, 2),
                  keepalive |-> x.val.keepalive, cid |-> None, props |-> <<>>,
                  willTopic |-> None, willPayload |-> None, willProps |-> <<>>,
                  willQos |-> (x.val.flags \div 8) % 4,
                  willRetain |-> Bit(x.val.flags, 32),
                  username |-> None, password |-> None]))
    BY <1>2, Zenon DEF ParseConnect, HeadLayout, RestLayout, WillLayout
<1>5. Then(h, LAMBDA x :
          Fields(RestLayout(x.val.level, x.val.flags), <<>>, x.at,
                 [level |-> x.val.level, clean |-> Bit(x.val.flags, 2),
                  keepalive |-> x.val.keepalive, cid |-> None, props |-> <<>>,
                  willTopic |-> None, willPayload |-> None, willProps |-> <<>>,
                  willQos |-> (x.val.flags \div 8) % 4,
                  willRetain |-> Bit(x.val.flags, 32),
                  username |-> None, password |-> None])) = Bad
    BY <1>3 DEF Then
<1> QED
    BY <1>4, <1>5 DEF Bad

LEMMA NothingPublished ==
    ASSUME NEW flags, NEW l
    PROVE  ~ParsePublish(flags, <<>>, l).ok
<1>10. PICK test : test = ((flags \div 2) % 4 > 0)
    OBVIOUS
<1>9. test \in BOOLEAN /\ test = ((flags \div 2) % 4 > 0)
    BY <1>10
<1>1. PICK r :
             r = [topic |-> None, id |-> None, props |-> <<>>, payload |-> None,
                  qos |-> (flags \div 2) % 4, retain |-> Bit(flags, 1),
                  dup |-> Bit(flags, 8)]
    OBVIOUS
<1>2. PICK a, b, c, d :
          /\ a = <<<<"topic", "text">>>> /\ b = When(test, <<<<"id", "u16">>>>)
          /\ c = PropsField("props", l) /\ d = <<<<"payload", "rest">>>>
    OBVIOUS
<1>11. b \in Layouts /\ c \in Layouts /\ d \in Layouts
    <2>1. <<<<"payload", "rest">>>> \in Layouts
        BY OneField, Names
    <2>2. When(test, <<<<"id", "u16">>>>) \in Layouts /\ PropsField("props", l) \in Layouts
        BY <1>9, PartLayouts, Names
    <2> QED
        BY <1>2, <2>1, <2>2
<1>3. StartsWith(a, <<"topic", "text">>)
    BY <1>2, StartOfOne, Names
<1>4. StartsWith(a \o b, <<"topic", "text">>)
    BY <1>3, <1>11, StartOfConcat, Zenon
<1>5. StartsWith((a \o b) \o c, <<"topic", "text">>)
    BY <1>4, <1>11, StartOfConcat, Zenon
<1>6. StartsWith(((a \o b) \o c) \o d, <<"topic", "text">>)
    BY <1>5, <1>11, StartOfConcat, Zenon
<1>7. ParsePublish(flags, <<>>, l) = Fields(((a \o b) \o c) \o d, <<>>, 0, r)
    BY <1>1, <1>2, <1>9, Zenon DEF ParsePublish
<1>8. PICK field : field = <<"topic", "text">> /\ field[2] = "text"
    BY <<"topic", "text">>[2] = "text"
<1> QED
    BY <1>6, <1>7, <1>8, FieldsFail, NothingRead

LEMMA NothingRequested ==
    ASSUME NEW l
    PROVE  ~ParseSubscribe(<<>>, l).ok /\ ~ParseUnsubscribe(<<>>, l).ok
<1>1. ASSUME NEW kind \in {"filter", "subscription"}
      PROVE  ~ParseFilters(kind, <<>>, l).ok
    <2>1. PICK a, b, c, r :
              /\ a = <<<<"id", "u16">>>> /\ b = PropsField("props", l)
              /\ c = <<<<"filters", kind>>>>
              /\ r = [id |-> None, props |-> <<>>, filters |-> <<>>]
        OBVIOUS
    <2>7. b \in Layouts /\ c \in Layouts
        <3>1. kind \in FieldTypes
            BY Names
        <3>2. <<<<"filters", kind>>>> \in Layouts
            BY <3>1, OneField, Names
        <3>3. PropsField("props", l) \in Layouts
            BY PartLayouts, Names
        <3> QED
            BY <2>1, <3>2, <3>3
    <2>2. StartsWith(a, <<"id", "u16">>)
        BY <2>1, StartOfOne, Names
    <2>3. StartsWith(a \o b, <<"id", "u16">>)
        BY <2>2, <2>7, StartOfConcat, Zenon
    <2>4. StartsWith((a \o b) \o c, <<"id", "u16">>)
        BY <2>3, <2>7, StartOfConcat, Zenon
    <2>5. ParseFilters(kind, <<>>, l) = Fields((a \o b) \o c, <<>>, 0, r)
        BY <2>1, Zenon DEF ParseFilters
    <2>6. PICK field : field = <<"id", "u16">> /\ field[2] = "u16"
        BY <<"id", "u16">>[2] = "u16"
    <2> QED
        BY <2>4, <2>5, <2>6, FieldsFail, NothingRead
<1>2. ~ParseUnsubscribe(<<>>, l).ok
    BY <1>1 DEF ParseUnsubscribe
<1>3. ~ParseSubscribe(<<>>, l).ok
    <2>1. PICK r : r = ParseFilters("subscription", <<>>, l)
        OBVIOUS
    <2>2. ~r.ok
        BY <1>1, <2>1
    <2>3. ParseSubscribe(<<>>, l)
        = Then(r, LAMBDA x : Got([x.val EXCEPT !.filters =
              [i \in DOMAIN x.val.filters |->
                  <<x.val.filters[i][1], SubscribeOptions(x.val.filters[i][2], l)>>]], x.at))
        BY <2>1, Zenon DEF ParseSubscribe
    <2>4. Then(r, LAMBDA x : Got([x.val EXCEPT !.filters =
              [i \in DOMAIN x.val.filters |->
                  <<x.val.filters[i][1], SubscribeOptions(x.val.filters[i][2], l)>>]], x.at))
            = Bad
        BY <2>2 DEF Then
    <2> QED
        BY <2>3, <2>4 DEF Bad
<1> QED
    BY <1>2, <1>3

LEMMA NothingAcknowledged == ~ParsePacketId(<<>>).ok
BY NothingRead DEF ParsePacketId

(***************************************************************************)
(* A packet can be taken apart in one way only.                            *)
(***************************************************************************)
Built(bytes, first, code, body) ==
    /\ bytes \in Seq(Nat) /\ Len(body) \in Nat /\ Len(code) \in Nat
    /\ Len(bytes) = (1 + Len(code)) + Len(body)
    /\ bytes[1] = first
    /\ \A i \in 1..Len(code) : bytes[1 + i] = code[i]
    /\ \A i \in 1..Len(body) : bytes[(1 + Len(code)) + i] = body[i]

LEMMA BuiltParts ==
    ASSUME NEW type \in Nat, NEW flags \in Nat, NEW body \in Seq(Nat),
           NEW code \in Seq(Nat), code = EncodeVarint[Len(body)],
           NEW bytes, bytes = BuildPacket(type, flags, body)
    PROVE  Built(bytes, 16 * type + flags, code, body)
<1>8. PICK first \in Nat : first = 16 * type + flags
    OBVIOUS
<1>9. <<first>> \in Seq(Nat)
    OBVIOUS
<1>1. PICK h \in Seq(Nat) : h = <<first>>
    BY <1>9
<1>2. Len(h) = 1 /\ h[1] = first
    BY <1>1
<1>10. h \o code \in Seq(Nat)
    BY Joined
<1>3. PICK hc \in Seq(Nat) : hc = h \o code
    BY <1>10
<1>4. /\ Len(code) \in Nat /\ Len(hc) = 1 + Len(code)
      /\ hc[1] = first /\ \A i \in 1..Len(code) : hc[1 + i] = code[i]
    <2>1. /\ Len(h) \in Nat /\ Len(code) \in Nat /\ Len(h \o code) = Len(h) + Len(code)
          /\ \A i \in 1..Len(h) : (h \o code)[i] = h[i]
          /\ \A i \in 1..Len(code) : (h \o code)[Len(h) + i] = code[i]
        BY Joined
    <2>2. 1 \in 1..Len(h) /\ (h \o code)[1] = first
        BY <1>2, <2>1
    <2> QED
        BY <1>2, <1>3, <2>1, <2>2
<1>5. bytes = hc \o body
    BY <1>1, <1>3, <1>8, Zenon DEF BuildPacket
<1>6. /\ bytes \in Seq(Nat) /\ Len(body) \in Nat /\ Len(bytes) = Len(hc) + Len(body)
      /\ \A i \in 1..Len(hc) : bytes[i] = hc[i]
      /\ \A i \in 1..Len(body) : bytes[Len(hc) + i] = body[i]
    BY <1>5, Joined
<1>7. /\ 1 \in 1..Len(hc) /\ \A i \in 1..Len(code) : 1 + i \in 1..Len(hc)
    BY <1>4
<1> QED
    BY <1>4, <1>6, <1>7, <1>8 DEF Built

LEMMA CodeOfLength ==
    ASSUME NEW body \in Seq(Nat)
    PROVE  Len(body) \in Nat /\ EncodeVarint[Len(body)] \in Seq(Nat)
BY Encoding, LengthOfDigits

LEMMA FirstByteParts ==
    ASSUME NEW t \in 0..15, NEW f \in 0..15, NEW u \in 0..15, NEW g \in 0..15,
           16 * t + f = 16 * u + g
    PROVE  t = u /\ f = g
OBVIOUS

Same(t, f, a, u, g, b) == t = u /\ f = g /\ a = b

LEMMA SamePacket ==
    ASSUME NEW t \in 0..15, NEW f \in 0..15, NEW a \in Seq(Nat),
           NEW u \in 0..15, NEW g \in 0..15, NEW b \in Seq(Nat),
           BuildPacket(t, f, a) = BuildPacket(u, g, b)
    PROVE  Same(t, f, a, u, g, b)
<1>10. PICK x : x = BuildPacket(t, f, a)
    OBVIOUS
<1>11. PICK m \in Nat, n \in Nat : m = Len(a) /\ n = Len(b)
    OBVIOUS
<1>1. x = BuildPacket(t, f, a) /\ x = BuildPacket(u, g, b) /\ m = Len(a) /\ n = Len(b)
    BY <1>10, <1>11
<1>2. PICK c \in Seq(Nat), d \in Seq(Nat) : c = EncodeVarint[m] /\ d = EncodeVarint[n]
    BY <1>1, CodeOfLength
<1>12. t \in Nat /\ f \in Nat /\ u \in Nat /\ g \in Nat
    OBVIOUS
<1>13. c = EncodeVarint[Len(a)] /\ d = EncodeVarint[Len(b)]
    BY <1>1, <1>2
<1>14. Built(x, 16 * t + f, c, a)
    BY <1>1, <1>12, <1>13, BuiltParts, Zenon
<1>15. Built(x, 16 * u + g, d, b)
    BY <1>1, <1>12, <1>13, BuiltParts, Zenon
<1>3. /\ Len(c) \in Nat /\ Len(x) = (1 + Len(c)) + m /\ x[1] = 16 * t + f
      /\ \A i \in 1..m : x[(1 + Len(c)) + i] = a[i]
    BY <1>1, <1>14, Zenon DEF Built
<1>4. /\ Len(d) \in Nat /\ Len(x) = (1 + Len(d)) + n /\ x[1] = 16 * u + g
      /\ \A i \in 1..n : x[(1 + Len(d)) + i] = b[i]
    BY <1>1, <1>15, Zenon DEF Built
<1>16. 16 * t + f = 16 * u + g
    BY <1>3, <1>4, Zenon
<1>5. t = u /\ f = g
    BY <1>16
<1>6. m = n
    <2>2. PICK p \in Nat, q \in Nat : p = Len(c) /\ q = Len(d)
        BY <1>3, <1>4, Zenon
    <2>1. p + m = q + n
        <3>1. Len(x) = (1 + p) + m
            BY <1>3, <2>2, Zenon
        <3>2. Len(x) = (1 + q) + n
            BY <1>4, <2>2, Zenon
        <3>3. (1 + p) + m = (1 + q) + n
            BY <3>1, <3>2, Zenon
        <3> QED
            BY <3>3
    <2>3. Len(EncodeVarint[m]) + m = Len(EncodeVarint[n]) + n
        BY <1>2, <2>1, <2>2, Zenon
    <2> QED
        BY <2>3, OneSize, Zenon
<1>7. Len(c) = Len(d)
    BY <1>2, <1>6
<1>8. \A i \in 1..Len(b) : a[i] = b[i]
    BY <1>1, <1>3, <1>4, <1>6, <1>7
<1>9. a = b
    BY <1>1, <1>6, <1>8, SameList
<1> QED
    BY <1>5, <1>9 DEF Same

(***************************************************************************)
(* The parsers get back what the client wrote.                             *)
(***************************************************************************)
\* The frame and the body are those of a packet.
Carries(p, l, data) ==
    /\ data \in Seq(Nat) /\ Small(data)
    /\ frame.type \in 0..15 /\ frame.flags \in 0..15
    /\ BuildPacket(frame.type, frame.flags, data) = PacketBytes(p, l)

\* What the parser makes of a packet.
ReadAs(p, r) ==
    IF p.val # None THEN r.ok /\ r.val = p.val
    ELSE /\ r.ok <=> p.type \notin {3, 4, 5, 6, 7, 8, 10}
         /\ r.ok => r.val = None

Carried(type, flags, body, data) ==
    frame.type = type /\ frame.flags = flags /\ data = body

LEMMA CarriedBody ==
    ASSUME NEW p, NEW l, NEW data, Carries(p, l, data),
           NEW type \in 0..15, NEW flags \in 0..15, NEW body \in Seq(Nat),
           PacketBytes(p, l) = BuildPacket(type, flags, body)
    PROVE  Carried(type, flags, body, data)
<1>1. /\ data \in Seq(Nat) /\ frame.type \in 0..15 /\ frame.flags \in 0..15
      /\ BuildPacket(frame.type, frame.flags, data) = BuildPacket(type, flags, body)
    BY Zenon DEF Carries
<1>2. PICK t \in 0..15, f \in 0..15 : t = frame.type /\ f = frame.flags
    BY <1>1
<1>3. BuildPacket(t, f, data) = BuildPacket(type, flags, body)
    BY <1>1, <1>2, Zenon
<1>4. Same(t, f, data, type, flags, body)
    BY <1>1, <1>2, <1>3, SamePacket, Zenon
<1>5. t = type /\ f = flags /\ data = body
    BY <1>4 DEF Same
<1> QED
    BY <1>2, <1>5, Zenon DEF Carried

LEMMA NoBytes == <<>> \in Seq(Nat)
OBVIOUS

LEMMA EmptyCarried ==
    ASSUME NEW p, NEW l, IsPacket(p, l), p.val = None, NEW data, Carries(p, l, data)
    PROVE  Carried(p.type, 0, <<>>, data)
<1>1. PacketBytes(p, l) = BuildPacket(p.type, 0, <<>>)
    BY DEF PacketBytes
<1>2. p.type \in 0..15 /\ 0 \in 0..15
    BY DEF IsPacket
<1> QED
    BY <1>1, <1>2, NoBytes, CarriedBody, Zenon

LEMMA ConnectCarried ==
    ASSUME NEW p, NEW l, p.type = 1, p.val # None, IsConnect(p.val),
           NEW data, Carries(p, l, data)
    PROVE  frame.type = 1 /\ ReadAs(p, ParseConnect(data))
<1>1. PacketBytes(p, l) = BuildPacket(1, 0, ConnectBytes(p.val))
    BY DEF PacketBytes, PacketType
<1>2. PICK body \in Seq(Nat) : body = ConnectBytes(p.val)
    BY ConnectRead, Zenon
<1>3. PacketBytes(p, l) = BuildPacket(1, 0, body) /\ 0 \in 0..15 /\ 1 \in 0..15
    BY <1>1, <1>2
<1>10. Carried(1, 0, body, data)
    BY <1>3, CarriedBody, Zenon
<1>4. frame.type = 1 /\ data = body
    BY <1>10 DEF Carried
<1>5. Small(data)
    BY DEF Carries
<1>6. ParseConnect(data) = Got(p.val, Len(data))
    BY <1>2, <1>4, <1>5, ConnectRead, Zenon
<1> QED
    BY <1>4, <1>6 DEF ReadAs, Got

LEMMA PublishCarried ==
    ASSUME NEW p, NEW l, p.type = 3, p.val # None, IsPublish(p.val),
           l # 5 => p.val.props = <<>>, NEW data, Carries(p, l, data)
    PROVE  frame.type = 3 /\ ReadAs(p, ParsePublish(frame.flags, data, l))
<1>1. PacketBytes(p, l) = BuildPacket(3, PublishFlags(p.val), PublishBody(p.val, l))
    BY PublishPacket DEF PacketBytes, PacketType
<1>2. PICK body \in Seq(Nat) : body = PublishBody(p.val, l)
    BY PublishRead, Zenon
<1>7. PICK flags \in 0..15 : flags = PublishFlags(p.val)
    BY PublishFlagsRead, Zenon DEF IsPublish
<1>3. PacketBytes(p, l) = BuildPacket(3, flags, body) /\ 3 \in 0..15
    BY <1>1, <1>2, <1>7
<1>10. Carried(3, flags, body, data)
    BY <1>3, CarriedBody, Zenon
<1>4. frame.type = 3 /\ frame.flags = flags /\ data = body
    BY <1>10 DEF Carried
<1>5. Small(data)
    BY DEF Carries
<1>8. (IF l = 5 THEN p.val ELSE [p.val EXCEPT !.props = <<>>]) = p.val
    <2>1. p.val = [topic |-> p.val.topic, id |-> p.val.id, props |-> p.val.props,
              payload |-> p.val.payload, qos |-> p.val.qos, retain |-> p.val.retain,
              dup |-> p.val.dup]
        BY DEF IsPublish
    <2>2. l # 5 => [p.val EXCEPT !.props = <<>>] = p.val
        BY <2>1
    <2> QED
        BY <2>2
<1>9. Small(PublishBody(p.val, l))
    BY <1>2, <1>4, <1>5, Zenon
<1>11. ParsePublish(PublishFlags(p.val), PublishBody(p.val, l), l)
           = Got(IF l = 5 THEN p.val ELSE [p.val EXCEPT !.props = <<>>],
                 Len(PublishBody(p.val, l)))
    BY <1>9, PublishRead, Zenon
<1>12. ParsePublish(frame.flags, data, l)
           = Got(IF l = 5 THEN p.val ELSE [p.val EXCEPT !.props = <<>>], Len(data))
    BY <1>2, <1>4, <1>7, <1>11, Zenon
<1>6. ParsePublish(frame.flags, data, l) = Got(p.val, Len(data))
    BY <1>8, <1>12, Zenon
<1> QED
    BY <1>4, <1>6 DEF ReadAs, Got

LEMMA AckCarried ==
    ASSUME NEW p, NEW l, p.type \in 4..7, p.val # None, IsValue("u16", p.val),
           NEW data, Carries(p, l, data)
    PROVE  frame.type = p.type /\ ReadAs(p, ParsePacketId(data))
<1>9. p.val \in Nat
    BY DEF IsValue
<1>1. PacketBytes(p, l)
          = BuildPacket(p.type, IF p.type = 6 THEN 2 ELSE 0, AckBody(p.val, 0, l))
    <2>1. PacketBytes(p, l) = EncodeAck(p.type, p.val, 0, l)
        BY DEF PacketBytes, PacketType
    <2> QED
        BY <2>1, AckPacket, Zenon
<1>2. PICK body \in Seq(Nat) : body = AckBody(p.val, 0, l)
    BY <1>9, AckBodyBytes
<1>7. PICK flags \in 0..15 : flags = IF p.type = 6 THEN 2 ELSE 0
    OBVIOUS
<1>3. PacketBytes(p, l) = BuildPacket(p.type, flags, body) /\ p.type \in 0..15
    BY <1>1, <1>2, <1>7
<1>10. Carried(p.type, flags, body, data)
    BY <1>3, CarriedBody, Zenon
<1>4. frame.type = p.type /\ data = body
    BY <1>10 DEF Carried
<1>6. ParsePacketId(data) = Got(p.val, 2)
    BY <1>2, <1>4, <1>9, AckRead
<1> QED
    BY <1>4, <1>6 DEF ReadAs, Got

LEMMA SubscribeCarried ==
    ASSUME NEW p, NEW l, p.type = 8, p.val # None,
           IsRequest(p.val, l, LAMBDA s : IsFilter(s, l)), NEW data, Carries(p, l, data)
    PROVE  frame.type = 8 /\ ReadAs(p, ParseSubscribe(data, l))
<1>1. PacketBytes(p, l) = BuildPacket(8, 2, FiltersBytes(p.val, l, FilterBytes))
    BY DEF PacketBytes, PacketType
<1>2. PICK body : body = FiltersBytes(p.val, l, FilterBytes)
    OBVIOUS
<1>7. /\ body \in Seq(Nat)
      /\ Small(body) => ParseSubscribe(body, l) = Got(p.val, Len(body))
    BY <1>2, SubscribeRead, Zenon
<1>3. PacketBytes(p, l) = BuildPacket(8, 2, body) /\ 8 \in 0..15 /\ 2 \in 0..15
    BY <1>1, <1>2
<1>10. Carried(8, 2, body, data)
    BY <1>3, <1>7, CarriedBody, Zenon
<1>4. frame.type = 8 /\ data = body
    BY <1>10 DEF Carried
<1>5. Small(data)
    BY DEF Carries
<1>6. ParseSubscribe(data, l) = Got(p.val, Len(data))
    BY <1>4, <1>5, <1>7, Zenon
<1> QED
    BY <1>4, <1>6 DEF ReadAs, Got

LEMMA UnsubscribeCarried ==
    ASSUME NEW p, NEW l, p.type = 10, p.val # None,
           IsRequest(p.val, l, IsText), NEW data, Carries(p, l, data)
    PROVE  frame.type = 10 /\ ReadAs(p, ParseUnsubscribe(data, l))
<1>1. PacketBytes(p, l) = BuildPacket(10, 2, FiltersBytes(p.val, l, EncodeText))
    BY DEF PacketBytes, PacketType
<1>2. PICK body : body = FiltersBytes(p.val, l, EncodeText)
    OBVIOUS
<1>7. /\ body \in Seq(Nat)
      /\ Small(body) => ParseUnsubscribe(body, l) = Got(p.val, Len(body))
    BY <1>2, UnsubscribeRead, Zenon
<1>3. PacketBytes(p, l) = BuildPacket(10, 2, body) /\ 10 \in 0..15 /\ 2 \in 0..15
    BY <1>1, <1>2
<1>10. Carried(10, 2, body, data)
    BY <1>3, <1>7, CarriedBody, Zenon
<1>4. frame.type = 10 /\ data = body
    BY <1>10 DEF Carried
<1>5. Small(data)
    BY DEF Carries
<1>6. ParseUnsubscribe(data, l) = Got(p.val, Len(data))
    BY <1>4, <1>5, <1>7, Zenon
<1> QED
    BY <1>4, <1>6 DEF ReadAs, Got

LEMMA DisconnectCarried ==
    ASSUME NEW p, NEW l, l \in 3..5, p.type = 14, p.val # None,
           p.val = [rc |-> p.val.rc, props |-> <<>>], p.val.rc \in 0..255,
           l < 5 => p.val.rc = 0, NEW data, Carries(p, l, data)
    PROVE  frame.type = 14 /\ ReadAs(p, ParseDisconnect(data, l))
<1>2. PICK body : body = When(l = 5, <<p.val.rc>> \o EncodeProps(<<>>))
    OBVIOUS
<1>1. PacketBytes(p, l) = BuildPacket(14, 0, body)
    BY <1>2 DEF PacketBytes, PacketType, EncodeDisconnect
<1>7. /\ body \in Seq(Nat)
      /\ Small(body) =>
            \E at : ParseDisconnect(body, l) = Got([rc |-> p.val.rc, props |-> <<>>], at)
    <2>1. PICK rc \in 0..255 : rc = p.val.rc
        OBVIOUS
    <2>2. body = When(l = 5, <<rc>> \o EncodeProps(<<>>)) /\ (l < 5 => rc = 0)
        BY <1>2, <2>1
    <2>3. EndsWith(rc, l, body)
        BY <2>2, DisconnectRead, Zenon
    <2> QED
        BY <2>1, <2>3, Zenon DEF EndsWith
<1>3. 14 \in 0..15 /\ 0 \in 0..15
    OBVIOUS
<1>10. Carried(14, 0, body, data)
    BY <1>1, <1>3, <1>7, CarriedBody, Zenon
<1>4. frame.type = 14 /\ data = body
    BY <1>10 DEF Carried
<1>5. Small(data)
    BY DEF Carries
<1>6. PICK at : ParseDisconnect(data, l) = Got(p.val, at)
    BY <1>4, <1>5, <1>7, Zenon
<1> QED
    BY <1>4, <1>6 DEF ReadAs, Got

\* After CONNECT, whatever packet of the client is read whole, the parser of
\* its type returns the value the client gave it, or fails on an empty body.
THEOREM ParsedAsWritten ==
    ASSUME NEW p, IsPacket(p, level), level \in {3, 4, 5}, p.type = 1 => p.val = None,
           NEW data, Carries(p, level, data)
    PROVE  frame.type = p.type /\ ReadAs(p, Parse(data))
<1>1. CASE p.val = None
    <2>1. frame.type = p.type /\ data = <<>>
        <3>1. Carried(p.type, 0, <<>>, data)
            BY <1>1, EmptyCarried, Zenon
        <3> QED
            BY <3>1 DEF Carried
    <2>2. p.type \in 0..15 /\ p.type # 14
        BY <1>1 DEF IsPacket, PacketType
    <2>3. CASE p.type = 3
        <3>1. Parse(data) = ParsePublish(frame.flags, <<>>, level)
            BY <2>1, <2>3 DEF Parse, PacketType
        <3>2. ~Parse(data).ok
            BY <3>1, NothingPublished, NothingAcknowledged, NothingRequested, Zenon
        <3> QED
            BY <1>1, <2>1, <2>3, <3>2 DEF ReadAs
    <2>4. CASE p.type \in 4..7
        <3>1. Parse(data) = ParsePacketId(<<>>)
            BY <2>1, <2>4 DEF Parse, PacketType
        <3>2. ~Parse(data).ok
            BY <3>1, NothingPublished, NothingAcknowledged, NothingRequested, Zenon
        <3> QED
            BY <1>1, <2>1, <2>4, <3>2 DEF ReadAs
    <2>5. CASE p.type = 8
        <3>1. Parse(data) = ParseSubscribe(<<>>, level)
            BY <2>1, <2>5 DEF Parse, PacketType
        <3>2. ~Parse(data).ok
            BY <3>1, NothingPublished, NothingAcknowledged, NothingRequested, Zenon
        <3> QED
            BY <1>1, <2>1, <2>5, <3>2 DEF ReadAs
    <2>6. CASE p.type = 10
        <3>1. Parse(data) = ParseUnsubscribe(<<>>, level)
            BY <2>1, <2>6 DEF Parse, PacketType
        <3>2. ~Parse(data).ok
            BY <3>1, NothingPublished, NothingAcknowledged, NothingRequested, Zenon
        <3> QED
            BY <1>1, <2>1, <2>6, <3>2 DEF ReadAs
    <2>7. CASE p.type \notin {3, 4, 5, 6, 7, 8, 10}
        <3>1. Parse(data) = Got(None, 0)
            BY <2>1, <2>2, <2>7 DEF Parse, PacketType
        <3> QED
            BY <1>1, <2>1, <2>7, <3>1 DEF ReadAs, Got
    <2> QED
        BY <2>2, <2>3, <2>4, <2>5, <2>6, <2>7
<1>2. CASE p.val # None /\ p.type = 3
    <2>1. IsPublish(p.val) /\ (level # 5 => p.val.props = <<>>)
        BY <1>2 DEF IsPacket, PacketType
    <2>2. frame.type = 3 /\ ReadAs(p, ParsePublish(frame.flags, data, level))
        BY <1>2, <2>1, PublishCarried, Zenon
    <2>3. Parse(data) = ParsePublish(frame.flags, data, level)
        BY <2>2 DEF Parse, PacketType
    <2> QED
        BY <1>2, <2>2, <2>3, Zenon
<1>3. CASE p.val # None /\ p.type \in 4..7
    <2>1. IsValue("u16", p.val)
        BY <1>3 DEF IsPacket, PacketType
    <2>2. frame.type = p.type /\ ReadAs(p, ParsePacketId(data))
        BY <1>3, <2>1, AckCarried, Zenon
    <2>3. Parse(data) = ParsePacketId(data)
        BY <1>3, <2>2 DEF Parse, PacketType
    <2> QED
        BY <1>3, <2>2, <2>3, Zenon
<1>4. CASE p.val # None /\ p.type = 8
    <2>1. IsRequest(p.val, level, LAMBDA s : IsFilter(s, level))
        BY <1>4 DEF IsPacket, PacketType
    <2>2. frame.type = 8 /\ ReadAs(p, ParseSubscribe(data, level))
        BY <1>4, <2>1, SubscribeCarried, Zenon
    <2>3. Parse(data) = ParseSubscribe(data, level)
        BY <2>2 DEF Parse, PacketType
    <2> QED
        BY <1>4, <2>2, <2>3, Zenon
<1>5. CASE p.val # None /\ p.type = 10
    <2>1. IsRequest(p.val, level, IsText)
        BY <1>5 DEF IsPacket, PacketType
    <2>2. frame.type = 10 /\ ReadAs(p, ParseUnsubscribe(data, level))
        BY <1>5, <2>1, UnsubscribeCarried, Zenon
    <2>3. Parse(data) = ParseUnsubscribe(data, level)
        BY <2>2 DEF Parse, PacketType
    <2> QED
        BY <1>5, <2>2, <2>3, Zenon
<1>6. CASE p.val # None /\ p.type = 14
    <2>1. /\ p.val = [rc |-> p.val.rc, props |-> <<>>]
          /\ p.val.rc \in 0..255 /\ (level < 5 => p.val.rc = 0) /\ level \in 3..5
        BY <1>6 DEF IsPacket, PacketType
    <2>2. frame.type = 14 /\ ReadAs(p, ParseDisconnect(data, level))
        BY <1>6, <2>1, DisconnectCarried, Zenon
    <2>3. Parse(data) = ParseDisconnect(data, level)
        BY <2>2 DEF Parse, PacketType
    <2> QED
        BY <1>6, <2>2, <2>3, Zenon
<1>7. p.val # None => p.type \in {3, 4, 5, 6, 7, 8, 10, 14}
    BY DEF IsPacket, PacketType
<1> QED
    BY <1>1, <1>2, <1>3, <1>4, <1>5, <1>6, <1>7

\* Before CONNECT.
LEMMA TypeCarried ==
    ASSUME NEW p, NEW l, l \in {3, 4, 5}, IsPacket(p, l), p.type # 1,
           NEW data, Carries(p, l, data)
    PROVE  frame.type = p.type
<1>1. CASE p.val = None
    <2>1. Carried(p.type, 0, <<>>, data)
        BY <1>1, EmptyCarried, Zenon
    <2> QED
        BY <2>1 DEF Carried
<1>2. CASE p.val # None /\ p.type = 3
    BY <1>2, PublishCarried DEF IsPacket, PacketType
<1>3. CASE p.val # None /\ p.type \in 4..7
    BY <1>3, AckCarried DEF IsPacket, PacketType
<1>4. CASE p.val # None /\ p.type = 8
    <2>1. IsRequest(p.val, l, LAMBDA s : IsFilter(s, l))
        BY <1>4 DEF IsPacket, PacketType
    <2> QED
        BY <1>4, <2>1, SubscribeCarried, Zenon
<1>5. CASE p.val # None /\ p.type = 10
    <2>1. IsRequest(p.val, l, IsText)
        BY <1>5 DEF IsPacket, PacketType
    <2> QED
        BY <1>5, <2>1, UnsubscribeCarried, Zenon
<1>6. CASE p.val # None /\ p.type = 14
    <2>1. /\ p.val = [rc |-> p.val.rc, props |-> <<>>]
          /\ p.val.rc \in 0..255 /\ (l < 5 => p.val.rc = 0) /\ l \in 3..5
        BY <1>6 DEF IsPacket, PacketType
    <2> QED
        BY <1>6, <2>1, DisconnectCarried, Zenon
<1>7. p.val # None => p.type \in {3, 4, 5, 6, 7, 8, 10, 14}
    BY DEF IsPacket, PacketType
<1> QED
    BY <1>1, <1>2, <1>3, <1>4, <1>5, <1>6, <1>7

LEMMA ConnectParsed ==
    ASSUME NEW p, NEW l, IsPacket(p, l), p.type # 1 => l \in {3, 4, 5},
           level = 0, NEW data, Carries(p, l, data)
    PROVE  /\ frame.type = p.type
           /\ p.type = 1 => /\ Parse(data).ok <=> p.val # None
                            /\ p.val # None => Parse(data).val = p.val
<1>1. CASE p.type # 1
    BY <1>1, TypeCarried, Zenon
<1>2. CASE p.type = 1
    <2>1. Parse(data) = ParseConnect(data)
        BY DEF Parse
    <2>2. CASE p.val = None
        <3>1. Carried(p.type, 0, <<>>, data)
            BY <2>2, EmptyCarried, Zenon
        <3>2. frame.type = p.type /\ data = <<>>
            BY <3>1 DEF Carried
        <3>3. ~Parse(data).ok
            BY <2>1, <3>2, NothingConnects, Zenon
        <3> QED
            BY <1>2, <2>2, <3>2, <3>3, Zenon
    <2>3. CASE p.val # None
        <3>1. IsConnect(p.val)
            BY <1>2, <2>3 DEF IsPacket, PacketType
        <3>2. frame.type = 1 /\ ReadAs(p, ParseConnect(data))
            BY <1>2, <2>3, <3>1, ConnectCarried, Zenon
        <3> QED
            BY <1>2, <2>1, <2>3, <3>2, Zenon DEF ReadAs
    <2> QED
        BY <2>2, <2>3
<1> QED
    BY <1>1, <1>2

(***************************************************************************)
(* What a client reads in the answers.                                     *)
(***************************************************************************)
LEMMA SmallQuotient ==
    ASSUME NEW n \in Nat, NEW m \in Nat, n <= 3 * m + 2
    PROVE  n >= Base => n \div Base \in Nat /\ n \div Base <= m
<1>1. PICK q \in Nat, r \in 0..(Base - 1) : q = n \div Base /\ n = Base * q + r
    BY Division
<1>2. PICK b \in Nat : b = Base /\ b >= 3
    BY BaseAssumption
<1>3. b * q <= 3 * m + 2
    <2>1. n = b * q + r /\ r >= 0 /\ r \in Nat
        BY <1>1, <1>2
    <2>2. PICK x \in Nat : x = b * q
        OBVIOUS
    <2> QED
        BY <2>1, <2>2
<1>4. 3 * q <= b * q
    BY <1>2, SMTT(30)
<1>5. q <= m
    <2>1. PICK x \in Nat : x = b * q
        OBVIOUS
    <2> QED
        BY <1>3, <1>4, <2>1
<1> QED
    BY <1>1, <1>5

LEMMA FewDigits ==
    ASSUME NEW n \in Nat, n <= 80
    PROVE  Len(EncodeVarint[n]) <= 4
<1> DEFINE L(k) == Len(EncodeVarint[k])
<1>1. ASSUME NEW k \in Nat
      PROVE  /\ L(k) \in Nat
             /\ k < Base => L(k) = 1
             /\ k >= Base => L(k) = 1 + L(k \div Base)
             /\ ~(k < Base) => k >= Base
    <2>1. /\ L(k) \in Nat /\ L(k) >= 1
          /\ k < Base => L(k) = 1
          /\ k >= Base => /\ k \div Base \in Nat /\ k \div Base < k
                          /\ L(k) = 1 + L(k \div Base)
        BY LengthOfDigits
    <2> QED
        BY <2>1, BaseAssumption
<1> HIDE DEF L
<1>2. ASSUME NEW k \in Nat, k <= 2 PROVE L(k) <= 1
    BY <1>1, <1>2, BaseAssumption
<1>3. ASSUME NEW k \in Nat, k <= 8 PROVE L(k) <= 2
    <2>1. k >= Base => k \div Base \in Nat /\ k \div Base <= 2
        BY <1>3, SmallQuotient
    <2>2. k >= Base => L(k \div Base) <= 1 /\ L(k \div Base) \in Nat
        BY <1>1, <1>2, <2>1
    <2> QED
        BY <1>1, <2>2
<1>4. ASSUME NEW k \in Nat, k <= 26 PROVE L(k) <= 3
    <2>1. k >= Base => k \div Base \in Nat /\ k \div Base <= 8
        BY <1>4, SmallQuotient
    <2>2. k >= Base => L(k \div Base) <= 2 /\ L(k \div Base) \in Nat
        BY <1>1, <1>3, <2>1
    <2> QED
        BY <1>1, <2>2
<1>5. L(n) <= 4
    <2>1. n >= Base => n \div Base \in Nat /\ n \div Base <= 26
        BY SmallQuotient
    <2>2. n >= Base => L(n \div Base) <= 3 /\ L(n \div Base) \in Nat
        BY <1>1, <1>4, <2>1
    <2> QED
        BY <1>1, <2>2
<1> QED
    BY <1>5 DEF L

LEMMA SmallIfShort ==
    ASSUME NEW body, Len(body) \in Nat, Len(body) <= 80
    PROVE  Small(body)
BY FewDigits DEF Small

OpensTo(bytes, type, flags, body, at) ==
    /\ DecodeVarint(bytes, 1) = Got(Len(body), at)
    /\ at + Len(body) = Len(bytes)
    /\ SubSeq(bytes, at + 1, Len(bytes)) = body
    /\ bytes[1] \div 16 = type /\ bytes[1] % 16 = flags

LEMMA Opened ==
    ASSUME NEW type \in 0..15, NEW flags \in 0..15, NEW body \in Seq(Nat), Small(body),
           NEW bytes, bytes = BuildPacket(type, flags, body)
    PROVE  \E at \in Nat : OpensTo(bytes, type, flags, body, at)
<1>1. PICK code \in Seq(Nat) : code = EncodeVarint[Len(body)]
    BY CodeOfLength
<1>2. type \in Nat /\ flags \in Nat
    OBVIOUS
<1>3. Built(bytes, 16 * type + flags, code, body)
    BY <1>1, <1>2, BuiltParts, Zenon
<1>4. /\ bytes \in Seq(Nat) /\ Len(body) \in Nat /\ Len(code) \in Nat
      /\ Len(bytes) = (1 + Len(code)) + Len(body)
      /\ bytes[1] = 16 * type + flags
      /\ \A i \in 1..Len(code) : bytes[1 + i] = code[i]
      /\ \A i \in 1..Len(body) : bytes[(1 + Len(code)) + i] = body[i]
    BY <1>3, Zenon DEF Built
<1>5. Has(bytes, 1, code)
    <2>1. 1 + Len(code) <= Len(bytes)
        BY <1>4
    <2> QED
        BY <1>4, <2>1 DEF Has
<1>6. PICK at \in Nat : at = 1 + Len(code)
    BY <1>4
<1>7. Has(bytes, at, body) /\ at + Len(body) = Len(bytes)
    <2>1. at + Len(body) = Len(bytes) /\ at + Len(body) <= Len(bytes)
        BY <1>4, <1>6
    <2> QED
        BY <1>4, <1>6, <2>1 DEF Has
<1>8. DecodeVarint(bytes, 1) = Got(Len(body), at)
    <2>1. PICK n \in Nat : n = Len(body)
        BY <1>4
    <2>2. Len(EncodeVarint[n]) <= 4 /\ Has(bytes, 1, EncodeVarint[n])
        BY <1>1, <1>5, <2>1 DEF Small
    <2>3. DecodeVarint(bytes, 1) = Got(n, 1 + Len(EncodeVarint[n]))
        BY <2>2, VarintRead, Zenon
    <2> QED
        BY <1>1, <1>6, <2>1, <2>3, Zenon
<1>9. SubSeq(bytes, at + 1, Len(bytes)) = body
    <2>1. SubSeq(bytes, at + 1, at + Len(body)) = body
        BY <1>7, HasCut, Zenon
    <2> QED
        BY <1>7, <2>1, Zenon
<1>10. bytes[1] \div 16 = type /\ bytes[1] % 16 = flags
    <2>1. (16 * type + flags) \div 16 = type /\ (16 * type + flags) % 16 = flags
        OBVIOUS
    <2> QED
        BY <1>4, <2>1, Zenon
<1> QED
    BY <1>7, <1>8, <1>9, <1>10, Zenon DEF OpensTo

LEMMA HeadingRead ==
    ASSUME NEW type \in 0..15, NEW flags \in 0..15, NEW body \in Seq(Nat), Small(body),
           NEW bytes, bytes = BuildPacket(type, flags, body)
    PROVE  Heading(bytes) = <<type, IF type \in {4, 5, 6, 7, 9, 11}
                                    THEN ParsePacketId(body).val ELSE None>>
<1>3. PICK at \in Nat : OpensTo(bytes, type, flags, body, at)
    BY Opened, Zenon
<1>1. /\ DecodeVarint(bytes, 1) = Got(Len(body), at)
      /\ at + Len(body) = Len(bytes)
      /\ SubSeq(bytes, at + 1, Len(bytes)) = body
      /\ bytes[1] \div 16 = type /\ bytes[1] % 16 = flags
    BY <1>3, Zenon DEF OpensTo
<1>2. /\ DecodeVarint(bytes, 1).ok /\ DecodeVarint(bytes, 1).at = at
      /\ DecodeVarint(bytes, 1).val = Len(body)
    BY <1>1 DEF Got
<1> QED
    BY <1>1, <1>2, Zenon DEF Heading

(***************************************************************************)
(* The sizes of answers.                                                   *)
(***************************************************************************)
LEMMA PlacesExist ==
    ASSUME NEW b \in Seq(Seq(Nat))
    PROVE  \E off : Places(off, b)
<1>1. PICK f : Sums(Nat, f, b)
    BY SumsExist
<1>2. FlattenSeq(b) \in Seq(Nat)
    BY <1>1, FlattenIsSum
<1>3. Has(FlattenSeq(b), 0, FlattenSeq(b))
    BY <1>2, HasAll
<1> QED
    BY <1>3, PartsOfWhole

LEMMA FlattenUpper ==
    ASSUME NEW b \in Seq(Seq(Nat)), NEW n \in Nat, n = Len(b),
           NEW bound \in [0..n -> Nat],
           \A i \in 1..n : bound[i - 1] + Len(b[i]) <= bound[i]
    PROVE  Len(FlattenSeq(b)) <= bound[n]
<1>1. PICK off : Places(off, b)
    BY PlacesExist
<1>2. /\ off \in [0..n -> Nat] /\ off[n] = Len(FlattenSeq(b)) /\ off[0] = 0
      /\ \A k \in 1..n : off[k] = off[k - 1] + Len(b[k])
    BY <1>1 DEF Places
<1> DEFINE T == {d \in Nat : d <= n => off[d] <= bound[d]}
<1>3. 0 \in T
    BY <1>2
<1>4. ASSUME NEW d \in Nat, d \in T PROVE d + 1 \in T
    <2> SUFFICES ASSUME d + 1 <= n PROVE off[d + 1] <= bound[d + 1]
        OBVIOUS
    <2>1. PICK k \in 1..n : k = d + 1 /\ k - 1 = d /\ d \in 0..n
        OBVIOUS
    <2>2. off[d] <= bound[d]
        BY <1>4, <2>1
    <2>3. off[k] = off[d] + Len(b[k]) /\ Len(b[k]) \in Nat /\ bound[d] + Len(b[k]) <= bound[k]
        BY <1>2, <2>1
    <2>4. off[d] \in Nat /\ bound[d] \in Nat /\ bound[k] \in Nat
        <3>1. k \in 0..n
            OBVIOUS
        <3> QED
            BY <1>2, <2>1, <3>1
    <2> QED
        BY <2>1, <2>2, <2>3, <2>4
<1>5. n \in T
    <2> HIDE DEF T
    <2> QED
        BY <1>3, <1>4, SetInduction
<1> QED
    BY <1>2, <1>5

LEMMA FlattenLower ==
    ASSUME NEW b \in Seq(Seq(Nat)), NEW n \in Nat, n = Len(b),
           \A i \in 1..n : Len(b[i]) >= 1
    PROVE  n <= Len(FlattenSeq(b))
<1>1. PICK off : Places(off, b)
    BY PlacesExist
<1>2. /\ off \in [0..n -> Nat] /\ off[n] = Len(FlattenSeq(b)) /\ off[0] = 0
      /\ \A k \in 1..n : off[k] = off[k - 1] + Len(b[k])
    BY <1>1 DEF Places
<1> DEFINE T == {d \in Nat : d <= n => d <= off[d]}
<1>3. 0 \in T
    BY <1>2
<1>4. ASSUME NEW d \in Nat, d \in T PROVE d + 1 \in T
    <2> SUFFICES ASSUME d + 1 <= n PROVE d + 1 <= off[d + 1]
        OBVIOUS
    <2>1. PICK k \in 1..n : k = d + 1 /\ k - 1 = d /\ d \in 0..n
        OBVIOUS
    <2>2. d <= off[d]
        BY <1>4, <2>1
    <2>3. off[k] = off[d] + Len(b[k]) /\ Len(b[k]) \in Nat /\ Len(b[k]) >= 1
        BY <1>2, <2>1
    <2>4. off[d] \in Nat
        BY <1>2, <2>1
    <2> QED
        BY <2>1, <2>2, <2>3, <2>4
<1>5. n \in T
    <2> HIDE DEF T
    <2> QED
        BY <1>3, <1>4, SetInduction
<1> QED
    BY <1>2, <1>5

\* The properties of CONNACK.
LEMMA ConnackPropsAreProps ==
    ASSUME NEW l, NEW cid
    PROVE  IsProps(ConnackProps(l, cid))
<1>1. PICK props : props = ConnackProps(l, cid)
    OBVIOUS
<1>2. PICK top : top = Radix * Radix - 1
    OBVIOUS
<1>3. top \in Nat /\ top < Radix * Radix
    BY <1>2, RadixIsPositive
<1>4. /\ DOMAIN props \subseteq {18, 33, 34, 36, 37, 40, 41, 42}
      /\ props = [id \in DOMAIN props |-> props[id]]
      /\ \A id \in DOMAIN props :
            props[id] = CASE id \in {33, 34} -> top
                          [] id = 18 -> <<0>>
                          [] id = 36 -> 2
                          [] id = 42 -> 0
                          [] OTHER -> 1
    <2>1. PICK S : S = IF l = 5
                       THEN {33, 34, 36, 37, 40, 41, 42} \cup (IF cid = <<>> THEN {18} ELSE {})
                       ELSE {}
        OBVIOUS
    <2>2. props = [id \in S |-> CASE id \in {33, 34} -> top
                          [] id = 18 -> <<0>>
                          [] id = 36 -> 2
                          [] id = 42 -> 0
                          [] OTHER -> 1]
        BY <1>1, <1>2, <2>1 DEF ConnackProps
    <2>3. S \subseteq {18, 33, 34, 36, 37, 40, 41, 42}
        BY <2>1
    <2> QED
        BY <2>2, <2>3
<1>5. IsText(<<0>>)
    <2>1. <<0>> \in Seq(0..255) /\ Len(<<0>>) = 1
        OBVIOUS
    <2>2. 1 < Radix * Radix
        <3>1. PICK b \in Nat : b = Base /\ b >= 3
            BY BaseAssumption
        <3>2. PICK r \in Nat : r = Radix /\ r = 2 * b /\ r >= 6
            BY <3>1 DEF Radix
        <3>3. r * r > 1
            BY <3>2, SMTT(30)
        <3> QED
            BY <3>2, <3>3
    <2> QED
        BY <2>1, <2>2 DEF IsText
<1>6. ASSUME NEW id \in DOMAIN props
      PROVE  /\ id \in 1..255 /\ PropType(id) # "pair"
             /\ IsValue(PropType(id), props[id])
    <2>1. CASE id \in {33, 34}
        <3>1. PropType(id) = "u16" /\ props[id] = top
            BY <1>4, <2>1 DEF PropType
        <3> QED
            BY <1>3, <2>1, <3>1 DEF IsValue
    <2>2. CASE id = 18
        <3>1. PropType(id) = "text" /\ props[id] = <<0>>
            BY <1>4, <2>2 DEF PropType
        <3>2. \A x : IsText(x) => IsValue("text", x)
            BY DEF IsValue
        <3>3. IsValue(PropType(id), props[id])
            BY <1>5, <3>1, <3>2, Zenon
        <3>4. PropType(id) # "pair"
            BY <3>1
        <3> QED
            BY <2>2, <3>3, <3>4
    <2>3. CASE id \in {36, 37, 40, 41, 42}
        <3>1. PropType(id) = "byte" /\ props[id] \in 0..255
            BY <1>4, <2>3 DEF PropType
        <3> QED
            BY <2>3, <3>1 DEF IsValue
    <2> QED
        BY <1>4, <2>1, <2>2, <2>3
<1>7. IsProps(props)
    <2>1. DOMAIN props \subseteq 1..255
        BY <1>6
    <2> QED
        BY <1>4, <1>6, <2>1, Zenon DEF IsProps
<1> QED
    BY <1>1, <1>7

\* The bytes that may come before the i-th property in CONNACK.
Before(i) == IF i < 18 THEN 0 ELSE IF i < 33 THEN 4 ELSE 4 + 3 * (i - 32)

LEMMA ConnackEntry ==
    ASSUME NEW cid, NEW props, props = ConnackProps(5, cid), NEW id \in 1..42
    PROVE  /\ PropBytes(props, id) \in Seq(Nat)
           /\ Len(PropBytes(props, id)) \in Nat
           /\ Before(id - 1) + Len(PropBytes(props, id)) <= Before(id)
<1>1. PICK top \in Nat : top = Radix * Radix - 1
    BY RadixIsPositive
<1>2. /\ DOMAIN props = {33, 34, 36, 37, 40, 41, 42} \cup (IF cid = <<>> THEN {18} ELSE {})
      /\ id \in DOMAIN props =>
            props[id] = CASE id \in {33, 34} -> top
                          [] id = 18 -> <<0>>
                          [] id = 36 -> 2
                          [] id = 42 -> 0
                          [] OTHER -> 1
    BY <1>1 DEF ConnackProps
<1>3. PICK bytes : bytes = PropBytes(props, id)
    OBVIOUS
<1>4. CASE id \notin DOMAIN props
    <2>1. bytes = <<>>
        BY <1>3, <1>4 DEF PropBytes
    <2>2. bytes \in Seq(Nat) /\ Len(bytes) = 0
        BY <2>1
    <2>3. Before(id - 1) <= Before(id) /\ Before(id - 1) \in Nat
        BY DEF Before
    <2> QED
        BY <1>3, <2>2, <2>3
<1>5. CASE id \in DOMAIN props /\ id \in {33, 34}
    <2>1. PropType(id) = "u16" /\ props[id] = top
        BY <1>2, <1>5 DEF PropType
    <2>2. PICK w \in Seq(Nat), h \in Seq(Nat) : w = Word(top) /\ h = <<id>>
        <3>1. Word(top) \in Seq(Nat) /\ <<id>> \in Seq(Nat)
            BY WordBytes
        <3> QED
            BY <3>1
    <2>3. bytes = h \o w
        BY <1>3, <1>5, <2>1, <2>2 DEF PropBytes, EntryBytes, EncodeValue
    <2>4. Len(w) = 2 /\ Len(h) = 1
        BY <2>2, WordBytes
    <2>5. h \o w \in Seq(Nat) /\ Len(h \o w) = Len(h) + Len(w)
        BY Joined
    <2>6. bytes \in Seq(Nat) /\ Len(bytes) = 3
        BY <2>3, <2>4, <2>5
    <2>7. Before(id - 1) + 3 <= Before(id) /\ 3 \in Nat
        BY <1>5 DEF Before
    <2> QED
        BY <1>3, <2>6, <2>7
<1>6. CASE id \in DOMAIN props /\ id = 18
    <2>1. PropType(id) = "text" /\ props[id] = <<0>>
        BY <1>2, <1>6 DEF PropType
    <2>2. PICK s \in Seq(Nat) : s = <<0>> /\ Len(s) = 1
        <3>1. <<0>> \in Seq(Nat) /\ Len(<<0>>) = 1
            OBVIOUS
        <3> QED
            BY <3>1
    <2>3. PICK w \in Seq(Nat), h \in Seq(Nat) : w = EncodeText(s) /\ h = <<id>>
        <3>1. EncodeText(s) \in Seq(Nat) /\ <<id>> \in Seq(Nat)
            BY TextBytes
        <3> QED
            BY <3>1
    <2>4. bytes = h \o w
        BY <1>3, <1>6, <2>1, <2>2, <2>3 DEF PropBytes, EntryBytes, EncodeValue
    <2>5. Len(w) = 3 /\ Len(h) = 1
        <3>1. Len(EncodeText(s)) = 2 + Len(s)
            BY TextBytes
        <3>2. PICK n : n = Len(s)
            OBVIOUS
        <3>3. n = 1 /\ Len(w) = 2 + n
            BY <2>2, <2>3, <3>1, <3>2, Zenon
        <3> QED
            BY <2>3, <3>3
    <2>6. h \o w \in Seq(Nat) /\ Len(h \o w) = Len(h) + Len(w)
        BY Joined
    <2>7. bytes \in Seq(Nat) /\ Len(bytes) = 4
        BY <2>4, <2>5, <2>6
    <2>8. Before(id - 1) + 4 <= Before(id) /\ 4 \in Nat
        BY <1>6 DEF Before
    <2> QED
        BY <1>3, <2>7, <2>8
<1>7. CASE id \in DOMAIN props /\ id \in {36, 37, 40, 41, 42}
    <2>1. PropType(id) = "byte" /\ props[id] \in 0..2
        <3>1. PropType(id) = "byte"
            BY <1>7 DEF PropType
        <3>2. id # 18 /\ id \notin {33, 34}
            BY <1>7
        <3>3. props[id] = CASE id = 36 -> 2 [] id = 42 -> 0 [] OTHER -> 1
            BY <1>2, <1>7, <3>2
        <3> QED
            BY <3>1, <3>3
    <2>2. PICK n \in Nat : n = props[id]
        BY <2>1
    <2>3. PICK w \in Seq(Nat), h \in Seq(Nat) : w = <<n>> /\ h = <<id>>
        <3>1. <<n>> \in Seq(Nat) /\ <<id>> \in Seq(Nat)
            OBVIOUS
        <3> QED
            BY <3>1
    <2>4. bytes = h \o w
        BY <1>3, <1>7, <2>1, <2>2, <2>3 DEF PropBytes, EntryBytes, EncodeValue
    <2>5. Len(w) = 1 /\ Len(h) = 1
        BY <2>3
    <2>6. h \o w \in Seq(Nat) /\ Len(h \o w) = Len(h) + Len(w)
        BY Joined
    <2>7. bytes \in Seq(Nat) /\ Len(bytes) = 2
        BY <2>4, <2>5, <2>6
    <2>8. Before(id - 1) + 2 <= Before(id) /\ 2 \in Nat
        BY <1>7 DEF Before
    <2> QED
        BY <1>3, <2>7, <2>8
<1> QED
    BY <1>2, <1>4, <1>5, <1>6, <1>7

LEMMA ConnackSize ==
    ASSUME NEW l, NEW cid
    PROVE  /\ PropsBytes(ConnackProps(l, cid), l) \in Seq(Nat)
           /\ Len(PropsBytes(ConnackProps(l, cid), l)) <= 40
<1>1. CASE l # 5
    <2>1. PropsBytes(ConnackProps(l, cid), l) = <<>>
        BY <1>1, Zenon DEF PropsBytes, When
    <2>2. <<>> \in Seq(Nat) /\ Len(<<>>) <= 40
        OBVIOUS
    <2> QED
        BY <2>1, <2>2, Zenon
<1>2. CASE l = 5
    <2>1. PICK props : props = ConnackProps(5, cid)
        OBVIOUS
    <2>2. DOMAIN props = {33, 34, 36, 37, 40, 41, 42} \cup (IF cid = <<>> THEN {18} ELSE {})
        BY <2>1 DEF ConnackProps
    <2>3. Max(DOMAIN props) = 42
        <3>1. DOMAIN props \in SUBSET (0..42) /\ 42 \in DOMAIN props
            BY <2>2
        <3>2. /\ Max(DOMAIN props) \in DOMAIN props
              /\ \A x \in DOMAIN props : x <= Max(DOMAIN props)
            <4>1. 42 \in Nat /\ DOMAIN props # {}
                BY <3>1
            <4> QED
                BY <3>1, <4>1, Greatest
        <3> QED
            BY <3>1, <3>2
    <2>4. PICK b : b = [id \in 1..42 |-> PropBytes(props, id)]
        OBVIOUS
    <2>5. b \in Seq(Seq(Nat)) /\ Len(b) = 42
        <3>1. \A id \in 1..42 : PropBytes(props, id) \in Seq(Nat)
            BY <2>1, ConnackEntry
        <3> QED
            BY <2>4, <3>1
    <2>6. Len(FlattenSeq(b)) <= 34
        <3>1. PICK n \in Nat : n = 42
            OBVIOUS
        <3>2. PICK bound : bound = [i \in 0..n |-> Before(i)]
            OBVIOUS
        <3>3. bound \in [0..n -> Nat]
            BY <3>2 DEF Before
        <3>4. ASSUME NEW i \in 1..n PROVE bound[i - 1] + Len(b[i]) <= bound[i]
            <4>1. i \in 1..42 /\ i - 1 \in 0..n /\ i \in 0..n
                BY <3>1
            <4>2. Before(i - 1) + Len(PropBytes(props, i)) <= Before(i)
                BY <2>1, <4>1, ConnackEntry
            <4> QED
                BY <2>4, <3>2, <4>1, <4>2
        <3>5. n = Len(b)
            BY <2>5, <3>1
        <3>6. Len(FlattenSeq(b)) <= bound[n]
            BY <2>5, <3>3, <3>4, <3>5, FlattenUpper
        <3>7. bound[n] = 34
            BY <3>1, <3>2 DEF Before
        <3> QED
            BY <3>6, <3>7
    <2>7. FlattenSeq(b) \in Seq(Nat)
        BY <2>5, SumsExist, FlattenIsSum
    <2>8. PICK body \in Seq(Nat) : body = FlattenSeq(b) /\ Len(body) \in Nat /\ Len(body) <= 34
        BY <2>6, <2>7
    <2>9. EncodeProps(props) = EncodeVarint[Len(body)] \o body
        <3>1. DOMAIN props # {}
            BY <2>2
        <3> QED
            BY <2>3, <2>4, <2>8, <3>1, Zenon DEF EncodeProps
    <2>10. PICK n \in Nat : n = Len(body) /\ n <= 34
        BY <2>8
    <2>11. PICK code \in Seq(Nat) : code = EncodeVarint[n] /\ Len(code) <= 4
        <3>1. n <= 80
            BY <2>10
        <3> QED
            BY <2>10, <3>1, CodeOfLength, FewDigits
    <2>12. code \o body \in Seq(Nat) /\ Len(code \o body) = Len(code) + Len(body)
           /\ Len(code) \in Nat
        BY Joined
    <2>13. Len(code \o body) <= 40
        <3>1. PICK c \in Nat : c = Len(code) /\ c <= 4
            BY <2>11, <2>12
        <3>2. Len(code \o body) = c + n
            BY <2>10, <2>12, <3>1
        <3> QED
            BY <2>10, <3>1, <3>2
    <2>14. PropsBytes(ConnackProps(l, cid), l) = code \o body
        BY <1>2, <2>1, <2>9, <2>10, <2>11, Zenon DEF PropsBytes, When
    <2> QED
        BY <2>12, <2>13, <2>14, Zenon
<1> QED
    BY <1>1, <1>2

(***************************************************************************)
(* The headings of the answers.                                            *)
(***************************************************************************)
LEMMA IdRead ==
    ASSUME NEW id \in Nat, NEW body, Has(body, 0, Word(id))
    PROVE  ParsePacketId(body).val = id
<1>1. ParsePacketId(body) = Got(id, 0 + 2)
    BY WordRead, Zenon DEF ParsePacketId
<1> QED
    BY <1>1 DEF Got

LEMMA AckHeading ==
    ASSUME NEW type \in 4..7, NEW id \in Nat, NEW l
    PROVE  Heading(EncodeAck(type, id, 0, l)) = <<type, id>>
<1>1. EncodeAck(type, id, 0, l)
          = BuildPacket(type, IF type = 6 THEN 2 ELSE 0, AckBody(id, 0, l))
    BY AckPacket, Zenon
<1>2. PICK flags \in 0..15 : flags = IF type = 6 THEN 2 ELSE 0
    OBVIOUS
<1>3. PICK body : body = AckBody(id, 0, l)
    OBVIOUS
<1>4. /\ body \in Seq(Nat) /\ Len(body) <= 4 /\ Len(body) \in Nat
      /\ Has(body, 0, Word(id))
    BY <1>3, AckBodyBytes
<1>5. Small(body)
    <2>1. Len(body) <= 80
        BY <1>4
    <2> QED
        BY <1>4, <2>1, SmallIfShort
<1>6. EncodeAck(type, id, 0, l) = BuildPacket(type, flags, body) /\ type \in 0..15
    BY <1>1, <1>2, <1>3
<1>7. Heading(EncodeAck(type, id, 0, l))
          = <<type, IF type \in {4, 5, 6, 7, 9, 11} THEN ParsePacketId(body).val ELSE None>>
    BY <1>4, <1>5, <1>6, HeadingRead, Zenon
<1>8. ParsePacketId(body).val = id
    BY <1>4, IdRead
<1>9. type \in {4, 5, 6, 7, 9, 11}
    OBVIOUS
<1> QED
    BY <1>7, <1>8, <1>9, Zenon

LEMMA PingHeading == Heading(Pingresp) = <<13, None>>
<1>1. Len(<<>>) = 0 /\ 0 \in Nat /\ 0 <= 80 /\ 13 \in 0..15 /\ 0 \in 0..15
      /\ 13 \notin {4, 5, 6, 7, 9, 11}
    OBVIOUS
<1>2. Small(<<>>)
    BY <1>1, SmallIfShort, Zenon
<1>3. Pingresp = BuildPacket(13, 0, <<>>)
    BY DEF Pingresp, PacketType
<1>5. PICK body \in Seq(Nat) : body = <<>>
    BY NoBytes
<1>6. Small(body) /\ Pingresp = BuildPacket(13, 0, body)
    BY <1>2, <1>3, <1>5, Zenon
<1>7. 13 \in 0..15 /\ 0 \in 0..15 /\ 13 \notin {4, 5, 6, 7, 9, 11}
    OBVIOUS
<1>8. PICK t \in 0..15 : t = 13
    OBVIOUS
<1>9. PICK bytes : bytes = Pingresp
    OBVIOUS
<1>10. bytes = BuildPacket(t, 0, body)
    BY <1>6, <1>8, <1>9, Zenon
<1>4. Heading(bytes) = <<t, IF t \in {4, 5, 6, 7, 9, 11}
                            THEN ParsePacketId(body).val ELSE None>>
    BY <1>6, <1>7, <1>10, HeadingRead, Zenon
<1> QED
    BY <1>4, <1>7, <1>8, <1>9

LEMMA DisconnectHeading ==
    ASSUME NEW rc \in Nat
    PROVE  Heading(EncodeDisconnect(rc, 5))[1] = 14
<1>1. PICK h \in Seq(Nat), z \in Seq(Nat) : h = <<rc>> /\ z = <<0>>
    <2>1. <<rc>> \in Seq(Nat) /\ <<0>> \in Seq(Nat)
        OBVIOUS
    <2> QED
        BY <2>1
<1>2. h \o z \in Seq(Nat) /\ Len(h \o z) = Len(h) + Len(z)
    BY Joined
<1>3. PICK body \in Seq(Nat) : body = h \o z
    BY <1>2
<1>4. Len(body) = 2
    <2>1. Len(h) = 1 /\ Len(z) = 1
        BY <1>1
    <2>2. Len(body) = 1 + 1
        BY <1>2, <1>3, <2>1, Zenon
    <2> QED
        BY <2>2
<1>5. Small(body)
    <2>1. Len(body) \in Nat /\ Len(body) <= 80
        BY <1>4
    <2> QED
        BY <2>1, SmallIfShort
<1>6. EncodeDisconnect(rc, 5) = BuildPacket(14, 0, body)
    <2>1. EncodeDisconnect(rc, 5) = BuildPacket(14, 0, <<rc>> \o EncodeProps(<<>>))
        BY DEF EncodeDisconnect, PacketType, When
    <2>2. EncodeProps(<<>>) = z
        BY <1>1, NoProps
    <2> QED
        BY <1>1, <1>3, <2>1, <2>2, Zenon
<1>7. 14 \in 0..15 /\ 0 \in 0..15 /\ 14 \notin {4, 5, 6, 7, 9, 11}
    OBVIOUS
<1>8. Heading(EncodeDisconnect(rc, 5)) = <<14, IF 14 \in {4, 5, 6, 7, 9, 11}
                                THEN ParsePacketId(body).val ELSE None>>
    BY <1>5, <1>6, <1>7, HeadingRead, Zenon
<1> QED
    BY <1>8

LEMMA ConnackHeading ==
    ASSUME NEW present \in BOOLEAN, NEW rc \in Nat, NEW l, NEW props,
           PropsBytes(props, l) \in Seq(Nat), Len(PropsBytes(props, l)) <= 40
    PROVE  Heading(EncodeConnack(present, rc, l, props)) = <<2, None>>
<1>1. PICK a : a = IF present THEN 1 ELSE 0
    OBVIOUS
<1>2. PICK rc311 : rc311 = CASE rc = 0 -> 0 [] rc = 132 -> 1 [] rc = 133 -> 2
                             [] rc = 134 -> 4 [] rc = 136 -> 3 [] OTHER -> 5
    OBVIOUS
<1>11. rc311 \in Nat
    BY <1>2
<1>12. PICK b : b = IF l = 5 THEN rc ELSE rc311
    OBVIOUS
<1>13. a \in Nat /\ b \in Nat
    BY <1>1, <1>11, <1>12
<1>14. <<a, b>> \in Seq(Nat) /\ Len(<<a, b>>) = 2
    BY <1>13
<1>3. PICK h \in Seq(Nat) : h = <<a, b>>
    BY <1>14
<1>4. PICK z \in Seq(Nat) : z = PropsBytes(props, l)
    OBVIOUS
<1>5. h \o z \in Seq(Nat) /\ Len(h \o z) = Len(h) + Len(z) /\ Len(z) \in Nat
    BY Joined
<1>6. PICK body \in Seq(Nat) : body = h \o z
    BY <1>5
<1>7. Len(body) \in Nat /\ Len(body) <= 80
    <2>1. PICK n \in Nat : n = Len(z)
        BY <1>5
    <2>2. n <= 40
        BY <1>4, <2>1, Zenon
    <2>3. Len(body) = 2 + n
        BY <1>3, <1>5, <1>6, <1>14, <2>1, Zenon
    <2> QED
        BY <2>2, <2>3
<1>8. Small(body)
    BY <1>7, SmallIfShort
<1>9. EncodeConnack(present, rc, l, props) = BuildPacket(2, 0, body)
    <2>1. EncodeConnack(present, rc, l, props)
              = BuildPacket(PacketType.CONNACK, 0, <<a, b>> \o PropsBytes(props, l))
        <3>1. EncodeConnack(present, rc, l, props)
              = BuildPacket(PacketType.CONNACK, 0,
                    <<IF present THEN 1 ELSE 0,
                      IF l = 5 THEN rc
                      ELSE CASE rc = 0 -> 0 [] rc = 132 -> 1 [] rc = 133 -> 2
                             [] rc = 134 -> 4 [] rc = 136 -> 3 [] OTHER -> 5>>
                    \o PropsBytes(props, l))
            BY DEF EncodeConnack
        <3> QED
            BY <1>1, <1>2, <1>12, <3>1
    <2>2. PacketType.CONNACK = 2
        BY DEF PacketType
    <2> QED
        BY <1>3, <1>4, <1>6, <2>1, <2>2, Zenon
<1>10. 2 \in 0..15 /\ 0 \in 0..15 /\ 2 \notin {4, 5, 6, 7, 9, 11}
    OBVIOUS
<1>15. Heading(EncodeConnack(present, rc, l, props))
           = <<2, IF 2 \in {4, 5, 6, 7, 9, 11} THEN ParsePacketId(body).val ELSE None>>
    BY <1>8, <1>9, <1>10, HeadingRead, Zenon
<1> QED
    BY <1>10, <1>15, Zenon

\* SUBACK and UNSUBACK: an identifier, properties, codes.
\* SUBACK and UNSUBACK.
CodeTypes == {9, 11}

LEMMA CodesHeading ==
    ASSUME NEW type \in CodeTypes, NEW id \in Nat, NEW l, NEW codes \in Seq(Nat),
           NEW first, first = Word(id) \o PropsBytes(<<>>, l),
           NEW body, body = first \o codes, Small(body)
    PROVE  Heading(BuildPacket(type, 0, body)) = <<type, id>>
<1>1. PICK w \in Seq(Nat), z \in Seq(Nat) : w = Word(id) /\ z = PropsBytes(<<>>, l)
    <2>1. <<0>> \in Seq(Nat) /\ <<>> \in Seq(Nat)
        OBVIOUS
    <2>2. PropsBytes(<<>>, l) \in Seq(Nat)
        BY <2>1, NoProps, Zenon DEF When, PropsBytes
    <2> QED
        BY <2>2, WordBytes
<1>2. w \o z \in Seq(Nat)
    BY Joined
<1>3. first \in Seq(Nat)
    BY <1>1, <1>2, Zenon
<1>4. first \o codes \in Seq(Nat)
    BY <1>3, Joined
<1>5. body \in Seq(Nat)
    BY <1>4, Zenon
<1>6. Has(body, 0, w)
    <2>1. Has(body, 0, body)
        BY <1>5, HasAll
    <2>2. Has(body, 0, first)
        BY <1>3, <2>1, HasParts
    <2>3. Has(body, 0, w \o z)
        BY <1>1, <2>2, Zenon
    <2> QED
        BY <2>3, HasParts
<1>7. PICK bytes : bytes = BuildPacket(type, 0, body)
    OBVIOUS
<1>8. type \in 0..15 /\ 0 \in 0..15
    BY DEF CodeTypes
<1>9. Heading(bytes) = <<type, IF type \in {4, 5, 6, 7, 9, 11}
                                THEN ParsePacketId(body).val ELSE None>>
    <2>1. PICK t \in 0..15, x \in Seq(Nat) : t = type /\ x = body
        BY <1>5, <1>8
    <2>2. Small(x) /\ bytes = BuildPacket(t, 0, x)
        BY <1>7, <2>1, Zenon
    <2>3. Heading(bytes) = <<t, IF t \in {4, 5, 6, 7, 9, 11}
                                THEN ParsePacketId(x).val ELSE None>>
        BY <1>8, <2>2, HeadingRead, Zenon
    <2> QED
        BY <2>1, <2>3, Zenon
<1>10. ParsePacketId(body).val = id
    BY <1>1, <1>6, IdRead
<1>11. type \in {4, 5, 6, 7, 9, 11}
    BY DEF CodeTypes
<1> QED
    BY <1>7, <1>9, <1>10, <1>11, Zenon

\* A request as bytes, and how many filters it has.
RequestParts(val, l, n, data) ==
    /\ val.id \in Nat /\ IsProps(val.props) /\ DOMAIN val.filters = 1..n
    /\ \E b \in Seq(Seq(Nat)) : \E first :
          /\ Len(b) = n /\ \A i \in 1..n : Len(b[i]) >= 1
          /\ first = Word(val.id) \o PropsBytes(val.props, l)
          /\ data = first \o FlattenSeq(b)

LEMMA UnsubscribeParts ==
    ASSUME NEW val, NEW l, IsRequest(val, l, IsText),
           NEW data, data = FiltersBytes(val, l, EncodeText)
    PROVE  \E n \in Nat : RequestParts(val, l, n, data)
<1>1. PICK id, props, list : id = val.id /\ props = val.props /\ list = val.filters
    OBVIOUS
<1>2. /\ id \in Nat /\ IsProps(props)
      /\ Len(list) \in Nat /\ list = [i \in 1..Len(list) |-> list[i]]
      /\ \A i \in 1..Len(list) : IsText(list[i])
    <2>1. /\ IsValue("u16", id) /\ IsProps(props)
          /\ Len(list) \in Nat /\ list = [i \in 1..Len(list) |-> list[i]]
          /\ \A i \in 1..Len(list) : IsText(list[i])
        BY <1>1, Zenon DEF IsRequest
    <2>2. id \in Nat
        BY <2>1 DEF IsValue
    <2> QED
        BY <2>1, <2>2, Zenon
<1>3. PICK n \in Nat : n = Len(list)
    BY <1>2
<1>4. DOMAIN list = 1..n
    BY <1>2, <1>3
<1>5. PICK b : b = [i \in 1..n |-> EncodeText(list[i])]
    OBVIOUS
<1>6. \A i \in 1..n : b[i] \in Seq(Nat) /\ Len(b[i]) >= 1
    <2> TAKE i \in 1..n
    <2>1. PICK t \in Seq(Nat) : t = list[i]
        BY <1>2, <1>3, TextIsNumbers
    <2>2. /\ EncodeText(t) \in Seq(Nat) /\ Len(EncodeText(t)) = 2 + Len(t)
          /\ Len(t) \in Nat
        BY TextBytes
    <2>3. b[i] = EncodeText(t)
        BY <1>5, <2>1
    <2> QED
        BY <2>2, <2>3
<1>7. b \in Seq(Seq(Nat)) /\ Len(b) = n
    <2>1. b \in [1..n -> Seq(Nat)]
        BY <1>5, <1>6
    <2> QED
        BY <1>5, <2>1
<1>8. PICK first : first = Word(val.id) \o PropsBytes(val.props, l)
    OBVIOUS
<1>9. data = first \o FlattenSeq(b)
    BY <1>1, <1>4, <1>5, <1>8, Zenon DEF FiltersBytes
<1> QED
    BY <1>1, <1>2, <1>4, <1>6, <1>7, <1>8, <1>9, Zenon DEF RequestParts

LEMMA SubscribeParts ==
    ASSUME NEW val, NEW l, IsRequest(val, l, LAMBDA s : IsFilter(s, l)),
           NEW data, data = FiltersBytes(val, l, FilterBytes)
    PROVE  /\ \E n \in Nat : RequestParts(val, l, n, data)
           /\ \A i \in DOMAIN val.filters : IsFilter(val.filters[i], l)
<1>1. PICK id, props, list : id = val.id /\ props = val.props /\ list = val.filters
    OBVIOUS
<1>2. /\ id \in Nat /\ IsProps(props)
      /\ Len(list) \in Nat /\ list = [i \in 1..Len(list) |-> list[i]]
      /\ \A i \in 1..Len(list) : IsFilter(list[i], l)
    <2>1. /\ IsValue("u16", id) /\ IsProps(props)
          /\ Len(list) \in Nat /\ list = [i \in 1..Len(list) |-> list[i]]
          /\ \A i \in 1..Len(list) : IsFilter(list[i], l)
        BY <1>1, Zenon DEF IsRequest
    <2>2. id \in Nat
        BY <2>1 DEF IsValue
    <2> QED
        BY <2>1, <2>2, Zenon
<1>3. PICK n \in Nat : n = Len(list)
    BY <1>2
<1>4. DOMAIN list = 1..n
    BY <1>2, <1>3
<1>5. PICK b : b = [i \in 1..n |-> FilterBytes(list[i])]
    OBVIOUS
<1>6. \A i \in 1..n : b[i] \in Seq(Nat) /\ Len(b[i]) >= 1
    <2> TAKE i \in 1..n
    <2>1. PICK t \in Seq(Nat), o \in Nat : t = list[i][1] /\ o = OptionsByte(list[i][2])
        BY <1>2, <1>3, FilterRead
    <2>2. b[i] = EncodeText(t) \o <<o>>
        BY <1>5, <2>1, FilterIsText
    <2>3. EncodeText(t) \in Seq(Nat) /\ <<o>> \in Seq(Nat) /\ Len(<<o>>) = 1
        BY TextBytes
    <2>4. EncodeText(t) \o <<o>> \in Seq(Nat) /\ Len(EncodeText(t) \o <<o>>) >= 1
        BY <2>3, Joined
    <2> QED
        BY <2>2, <2>4
<1>7. b \in Seq(Seq(Nat)) /\ Len(b) = n
    <2>1. b \in [1..n -> Seq(Nat)]
        BY <1>5, <1>6
    <2> QED
        BY <1>5, <2>1
<1>8. PICK first : first = Word(val.id) \o PropsBytes(val.props, l)
    OBVIOUS
<1>9. data = first \o FlattenSeq(b)
    BY <1>1, <1>4, <1>5, <1>8, Zenon DEF FiltersBytes
<1>10. \E k \in Nat : RequestParts(val, l, k, data)
    BY <1>1, <1>2, <1>4, <1>6, <1>7, <1>8, <1>9, Zenon DEF RequestParts
<1> QED
    BY <1>1, <1>2, <1>3, <1>4, <1>10

\* An answer with a code for each filter is no longer than the request.
LEMMA ReplyFits ==
    ASSUME NEW val, NEW l, NEW n \in Nat, NEW data, RequestParts(val, l, n, data),
           Small(data), NEW codes \in Seq(Nat), Len(codes) <= n,
           NEW first, first = Word(val.id) \o PropsBytes(<<>>, l),
           NEW body, body = first \o codes
    PROVE  Small(body)
<1>0. PICK b \in Seq(Seq(Nat)) : \E head :
          /\ Len(b) = n /\ \A i \in 1..n : Len(b[i]) >= 1
          /\ head = Word(val.id) \o PropsBytes(val.props, l)
          /\ data = head \o FlattenSeq(b)
    BY Zenon DEF RequestParts
<1>1. PICK head :
          /\ Len(b) = n /\ \A i \in 1..n : Len(b[i]) >= 1
          /\ head = Word(val.id) \o PropsBytes(val.props, l)
          /\ data = head \o FlattenSeq(b)
    BY <1>0, Zenon
<1>2. val.id \in Nat /\ IsProps(val.props)
    BY Zenon DEF RequestParts
<1>3. PICK flat \in Seq(Nat) : flat = FlattenSeq(b) /\ n <= Len(flat)
    <2>1. FlattenSeq(b) \in Seq(Nat)
        BY SumsExist, FlattenIsSum
    <2>2. n <= Len(FlattenSeq(b))
        BY <1>1, FlattenLower
    <2> QED
        BY <2>1, <2>2
<1>4. PICK w \in Seq(Nat), p \in Seq(Nat), z \in Seq(Nat) :
          /\ w = Word(val.id) /\ p = PropsBytes(val.props, l) /\ z = PropsBytes(<<>>, l)
    <2>1. <<0>> \in Seq(Nat) /\ <<>> \in Seq(Nat)
        OBVIOUS
    <2>2. PropsBytes(<<>>, l) \in Seq(Nat)
        BY <2>1, NoProps, Zenon DEF When, PropsBytes
    <2>3. PropsBytes(val.props, l) \in Seq(Nat)
        BY <1>2, <2>1, PropsSize, Zenon DEF When, PropsBytes
    <2> QED
        BY <1>2, <2>2, <2>3, WordBytes
<1>5. Len(z) <= Len(p) /\ Len(z) \in Nat /\ Len(p) \in Nat
    <2>1. CASE l = 5
        <3>1. z = <<0>> /\ p = EncodeProps(val.props)
            BY <1>4, <2>1, NoProps DEF PropsBytes, When
        <3>2. Len(<<0>>) = 1
            OBVIOUS
        <3>3. Len(EncodeProps(val.props)) \in Nat \ {0}
            BY <1>2, PropsSize
        <3> QED
            BY <3>1, <3>2, <3>3
    <2>2. CASE l # 5
        <3>1. z = <<>> /\ p = <<>>
            BY <1>4, <2>2 DEF PropsBytes, When
        <3> QED
            BY <3>1
    <2> QED
        BY <2>1, <2>2
<1>6. Len(data) = (Len(w) + Len(p)) + Len(flat) /\ Len(data) \in Nat
      /\ Len(w) \in Nat /\ Len(flat) \in Nat
    <2>1. w \o p \in Seq(Nat) /\ Len(w \o p) = Len(w) + Len(p)
        BY Joined
    <2>2. head \in Seq(Nat) /\ Len(head) = Len(w) + Len(p)
        BY <1>1, <1>4, <2>1, Zenon
    <2>3. head \o flat \in Seq(Nat) /\ Len(head \o flat) = Len(head) + Len(flat)
          /\ Len(head \o flat) \in Nat
        BY <2>2, Joined
    <2>4. data = head \o flat
        BY <1>1, <1>3, Zenon
    <2>5. Len(data) = (Len(w) + Len(p)) + Len(flat) /\ Len(data) \in Nat
        BY <2>2, <2>3, <2>4, Zenon
    <2> QED
        BY <2>5
<1>7. Len(body) = (Len(w) + Len(z)) + Len(codes) /\ Len(body) \in Nat /\ Len(codes) \in Nat
    <2>1. w \o z \in Seq(Nat) /\ Len(w \o z) = Len(w) + Len(z)
        BY Joined
    <2>2. first \in Seq(Nat) /\ Len(first) = Len(w) + Len(z)
        BY <1>4, <2>1, Zenon
    <2>3. first \o codes \in Seq(Nat) /\ Len(first \o codes) = Len(first) + Len(codes)
          /\ Len(first \o codes) \in Nat
        BY <2>2, Joined
    <2>5. Len(body) = (Len(w) + Len(z)) + Len(codes) /\ Len(body) \in Nat
        BY <2>2, <2>3, Zenon
    <2>6. Len(codes) \in Nat
        OBVIOUS
    <2> QED
        BY <2>5, <2>6
<1>8. PICK d \in Nat, e \in Nat : d = Len(data) /\ e = Len(body)
    BY <1>6, <1>7
<1>9. e <= d
    <2>1. PICK cw \in Nat, cp \in Nat, cz \in Nat, cf \in Nat, cc \in Nat :
            /\ cw = Len(w) /\ cp = Len(p) /\ cz = Len(z) /\ cf = Len(flat) /\ cc = Len(codes)
        BY <1>5, <1>6, <1>7
    <2>2. d = (cw + cp) + cf /\ e = (cw + cz) + cc
        BY <1>6, <1>7, <1>8, <2>1, Zenon
    <2>3. cz <= cp /\ n <= cf /\ cc <= n
        BY <1>3, <1>5, <2>1, Zenon
    <2> QED
        BY <2>2, <2>3
<1>10. Len(EncodeVarint[d]) <= 4
    BY <1>8, Zenon DEF Small
<1>11. Len(EncodeVarint[e]) <= Len(EncodeVarint[d])
    BY <1>9, Longer
<1>12. Len(EncodeVarint[e]) \in Nat /\ Len(EncodeVarint[d]) \in Nat
    BY LengthOfDigits
<1>13. Len(EncodeVarint[e]) <= 4
    BY <1>10, <1>11, <1>12
<1> QED
    BY <1>8, <1>13, Zenon DEF Small

(***************************************************************************)
(* SUBACK and UNSUBACK bear the identifier of the request, and are not too *)
(* long for it.                                                            *)
(***************************************************************************)
LEMMA ListIsSeq ==
    ASSUME NEW n \in Nat, NEW f \in [1..n -> Nat]
    PROVE  f \in Seq(Nat) /\ Len(f) = n
OBVIOUS

LEMMA SubackHeading ==
    ASSUME NEW val, NEW l, IsRequest(val, l, LAMBDA s : IsFilter(s, l)),
           NEW data, data = FiltersBytes(val, l, FilterBytes), Small(data),
           NEW codes, codes = [i \in DOMAIN val.filters |->
                                  IF val.filters[i][1] = <<>> THEN 143
                                  ELSE Min({val.filters[i][2].qos, 2})]
    PROVE  Heading(EncodeSuback(val.id, codes, l)) = <<9, val.id>>
<1>1. PICK n \in Nat : RequestParts(val, l, n, data)
    BY SubscribeParts, Zenon
<1>2. \A i \in DOMAIN val.filters : IsFilter(val.filters[i], l)
    BY SubscribeParts, Zenon
<1>3. val.id \in Nat /\ DOMAIN val.filters = 1..n
    BY <1>1, Zenon DEF RequestParts
<1>4. \A q \in 0..3 : Min({q, 2}) \in Nat
    <2> TAKE q \in 0..3
    <2>1. \E x \in {q, 2} : \A y \in {q, 2} : x <= y
        <3>1. q <= 2 \/ 2 <= q
            OBVIOUS
        <3> QED
            BY <3>1
    <2>2. Min({q, 2}) \in {q, 2}
        BY <2>1 DEF Min
    <2> QED
        BY <2>2
<1>5. \A i \in 1..n : codes[i] \in Nat
    <2> TAKE i \in 1..n
    <2>1. PICK q \in 0..3 : q = val.filters[i][2].qos
        BY <1>2, <1>3, Zenon DEF IsFilter
    <2>2. codes[i] = IF val.filters[i][1] = <<>> THEN 143 ELSE Min({q, 2})
        BY <1>3, <2>1, Zenon
    <2>3. Min({q, 2}) \in Nat
        BY <1>4
    <2> QED
        BY <2>2, <2>3
<1>6. codes \in Seq(Nat) /\ Len(codes) = n
    <2>1. codes = [i \in 1..n |-> codes[i]]
        BY <1>3
    <2>2. codes \in [1..n -> Nat]
        BY <1>5, <2>1
    <2> QED
        BY <2>2, ListIsSeq, Zenon
<1>7. Len(codes) <= n
    BY <1>6
<1>8. PICK first : first = Word(val.id) \o PropsBytes(<<>>, l)
    OBVIOUS
<1>9. PICK body : body = first \o codes
    OBVIOUS
<1>10. Small(body)
    BY <1>1, <1>6, <1>7, <1>8, <1>9, ReplyFits, Zenon
<1>11. PICK t \in CodeTypes : t = 9
    BY DEF CodeTypes
<1>12. Heading(BuildPacket(t, 0, body)) = <<t, val.id>>
    <2>1. PICK id \in Nat : id = val.id
        BY <1>3
    <2>2. first = Word(id) \o PropsBytes(<<>>, l)
        BY <1>8, <2>1, Zenon
    <2>4. t \in CodeTypes /\ id \in Nat
        BY <1>11, <2>1
    <2>5. codes \in Seq(Nat)
        BY <1>6
    <2>3. Heading(BuildPacket(t, 0, body)) = <<t, id>>
        BY <1>9, <1>10, <2>2, <2>4, <2>5, CodesHeading, Zenon
    <2> QED
        BY <2>1, <2>3, Zenon
<1>13. EncodeSuback(val.id, codes, l) = BuildPacket(9, 0, body)
    <2>1. PacketType.SUBACK = 9
        BY DEF PacketType
    <2> QED
        BY <1>8, <1>9, <2>1, Zenon DEF EncodeSuback
<1> QED
    BY <1>11, <1>12, <1>13, Zenon

LEMMA UnsubackHeading ==
    ASSUME NEW val, NEW l, IsRequest(val, l, IsText),
           NEW data, data = FiltersBytes(val, l, EncodeText), Small(data),
           NEW codes \in [DOMAIN val.filters -> {0, 17}]
    PROVE  Heading(EncodeUnsuback(val.id, codes, l)) = <<11, val.id>>
<1>1. PICK n \in Nat : RequestParts(val, l, n, data)
    BY UnsubscribeParts, Zenon
<1>3. val.id \in Nat /\ DOMAIN val.filters = 1..n
    BY <1>1, Zenon DEF RequestParts
<1>6. codes \in Seq(Nat) /\ Len(codes) = n
    <2>1. codes \in [1..n -> {0, 17}]
        BY <1>3
    <2> QED
        BY <2>1
<1>4. PICK sent3 \in Seq(Nat) : sent3 = When(l = 5, codes) /\ Len(sent3) <= n
    <2>1. <<>> \in Seq(Nat) /\ Len(<<>>) <= n /\ Len(codes) <= n
        BY <1>6
    <2> QED
        BY <1>6, <2>1 DEF When
<1>8. PICK first : first = Word(val.id) \o PropsBytes(<<>>, l)
    OBVIOUS
<1>9. PICK body : body = first \o sent3
    OBVIOUS
<1>10. Small(body)
    BY <1>1, <1>4, <1>8, <1>9, ReplyFits, Zenon
<1>11. PICK t \in CodeTypes : t = 11
    BY DEF CodeTypes
<1>12. Heading(BuildPacket(t, 0, body)) = <<t, val.id>>
    <2>1. PICK id \in Nat : id = val.id
        BY <1>3
    <2>2. first = Word(id) \o PropsBytes(<<>>, l)
        BY <1>8, <2>1, Zenon
    <2>4. t \in CodeTypes /\ id \in Nat
        BY <1>11, <2>1
    <2>5. sent3 \in Seq(Nat)
        BY <1>4
    <2>3. Heading(BuildPacket(t, 0, body)) = <<t, id>>
        BY <1>9, <1>10, <2>2, <2>4, <2>5, CodesHeading, Zenon
    <2> QED
        BY <2>1, <2>3, Zenon
<1>13. EncodeUnsuback(val.id, codes, l) = BuildPacket(11, 0, body)
    <2>1. PacketType.UNSUBACK = 11
        BY DEF PacketType
    <2> QED
        BY <1>4, <1>8, <1>9, <2>1, Zenon DEF EncodeUnsuback
<1> QED
    BY <1>11, <1>12, <1>13, Zenon

\* The body of a request that was carried.
LEMMA SubscribeWhole ==
    ASSUME NEW p, NEW l, p.type = 8, p.val # None,
           IsRequest(p.val, l, LAMBDA s : IsFilter(s, l)), NEW data, Carries(p, l, data)
    PROVE  data = FiltersBytes(p.val, l, FilterBytes) /\ Small(data)
<1>1. PacketBytes(p, l) = BuildPacket(8, 2, FiltersBytes(p.val, l, FilterBytes))
    BY DEF PacketBytes, PacketType
<1>2. PICK body : body = FiltersBytes(p.val, l, FilterBytes)
    OBVIOUS
<1>3. body \in Seq(Nat)
    BY <1>2, SubscribeRead, Zenon
<1>4. PacketBytes(p, l) = BuildPacket(8, 2, body) /\ 8 \in 0..15 /\ 2 \in 0..15
    BY <1>1, <1>2
<1>5. Carried(8, 2, body, data)
    BY <1>3, <1>4, CarriedBody, Zenon
<1>6. data = body
    BY <1>5, Zenon DEF Carried
<1> QED
    BY <1>2, <1>6, Zenon DEF Carries

LEMMA UnsubscribeWhole ==
    ASSUME NEW p, NEW l, p.type = 10, p.val # None,
           IsRequest(p.val, l, IsText), NEW data, Carries(p, l, data)
    PROVE  data = FiltersBytes(p.val, l, EncodeText) /\ Small(data)
<1>1. PacketBytes(p, l) = BuildPacket(10, 2, FiltersBytes(p.val, l, EncodeText))
    BY DEF PacketBytes, PacketType
<1>2. PICK body : body = FiltersBytes(p.val, l, EncodeText)
    OBVIOUS
<1>3. body \in Seq(Nat)
    BY <1>2, UnsubscribeRead, Zenon
<1>4. PacketBytes(p, l) = BuildPacket(10, 2, body) /\ 10 \in 0..15 /\ 2 \in 0..15
    BY <1>1, <1>2
<1>5. Carried(10, 2, body, data)
    BY <1>3, <1>4, CarriedBody, Zenon
<1>6. data = body
    BY <1>5, Zenon DEF Carried
<1> QED
    BY <1>2, <1>6, Zenon DEF Carries

=============================================================================
