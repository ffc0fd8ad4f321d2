------------------------- MODULE MessageParserProofs -------------------------
(***************************************************************************)
(* What TLAPS proves of the wire message and of its parser, for every      *)
(* value of the constants: that the size both programs allocate is the     *)
(* number of bytes they write; that the parser keeps its types, and so     *)
(* within its limits, on any body whatever, and has less left to read      *)
(* after every step; that the server reads every request as the message    *)
(* the client built; and that a response, cut anywhere, leaves the client  *)
(* no part of its addresses for the whole.                                 *)
(***************************************************************************)
EXTENDS MessageParser, SequenceTheorems, WellFoundedInduction, TLAPS

-----------------------------------------------------------------------------
\* Induction over the numbers, on the set of those a fact holds of.
LEMMA SetInduction ==
  ASSUME NEW S, 0 \in S, \A n \in Nat : n \in S => n + 1 \in S
  PROVE  Nat \subseteq S
<1> DEFINE R == OpToRel(<, Nat)
           T == Nat \ S
<1>1. IsWellFoundedOn(R, Nat)
  BY NatLessThanWellFounded, ZenonT(20)
<1> SUFFICES ASSUME T # {} PROVE FALSE
  OBVIOUS
<1>2. \A x, y \in Nat : x < y => <<x, y>> \in R
  BY DEF OpToRel
<1>3. T \subseteq Nat
  OBVIOUS
<1> HIDE DEF R, T
<1>4. PICK x \in T : \A y \in T : ~ (<<y, x>> \in R)
  BY <1>1, <1>3, WFMin
<1>5. x \in Nat /\ x \notin S
  BY DEF T
<1>6. x # 0 /\ x - 1 \in Nat
  BY <1>5
<1>7. x - 1 \in T
  BY <1>5, <1>6 DEF T
<1>8. <<x - 1, x>> \in R
  BY <1>2, <1>5, <1>6
<1> QED BY <1>4, <1>7, <1>8

\* What is defined by recursion over 0..n exists.
Steps(S) == [S \X Nat -> S]

Defined(S, base, step, n) ==
  \E g \in [0..n -> S] : g[0] = base /\ \A i \in 1..n : g[i] = step[<<g[i - 1], i>>]

\* The definition by recursion that the two loops over resolvers are.
LEMMA Recursion ==
  ASSUME NEW S, NEW base \in S, NEW step \in Steps(S), NEW n \in Nat
  PROVE  Defined(S, base, step, n)
<1> USE DEF Steps
<1> DEFINE Is(g, k) == g[0] = base /\ \A i \in 1..k : g[i] = step[<<g[i - 1], i>>]
           T == {k \in Nat : \E g \in [0..k -> S] : Is(g, k)}
<1>1. 0 \in T
  <2>1. [i \in 0..0 |-> base] \in [0..0 -> S] /\ Is([i \in 0..0 |-> base], 0)
    OBVIOUS
  <2> QED BY <2>1
<1>2. ASSUME NEW k \in Nat, k \in T PROVE k + 1 \in T
  <2>1. PICK g \in [0..k -> S] : Is(g, k)
    BY <1>2
  <2> DEFINE next == step[<<g[k], k + 1>>]
             h == [i \in 0..(k + 1) |-> IF i <= k THEN g[i] ELSE next]
  <2>2. g[k] \in S /\ next \in S
    OBVIOUS
  <2>3. h \in [0..(k + 1) -> S]
    BY <2>2
  <2>4. h[0] = base
    BY <2>1
  <2>5. ASSUME NEW i \in 1..(k + 1) PROVE h[i] = step[<<h[i - 1], i>>]
    <3>1. h[i - 1] = g[i - 1] /\ (i <= k => h[i] = g[i]) /\ (i = k + 1 => h[i] = next)
      OBVIOUS
    <3>2. i <= k => g[i] = step[<<g[i - 1], i>>]
      BY <2>1
    <3>3. CASE i <= k
      BY <3>1, <3>2, <3>3
    <3>4. CASE i = k + 1
      <4>1. h[i - 1] = g[k] /\ h[i] = next
        BY <3>1, <3>4
      <4> HIDE DEF h
      <4> QED BY <3>4, <4>1
    <3> QED BY <3>3, <3>4
  <2> HIDE DEF h
  <2>6. Is(h, k + 1)
    BY <2>4, <2>5
  <2> QED BY <2>3, <2>6
<1> HIDE DEF T
<1>3. Nat \subseteq T
  BY <1>1, <1>2, SetInduction
<1> QED BY <1>3 DEF T, Defined

-----------------------------------------------------------------------------
\* Varints.
LEMMA Weights ==
  /\ Weight[1] = 1 /\ Weight[2] = 128 /\ Weight[3] = 16384
  /\ Weight[4] = 2097152 /\ Weight[5] = 268435456
BY DEF Weight

\* The size of a varint is the only one whose bounds the number meets.
LEMMA SizeIs ==
  ASSUME NEW n \in Nat, NEW k \in 1..5,
         k = 1 \/ n >= Weight[k], k = 5 \/ n < Weight[k + 1]
  PROVE  VarintSize(n) = k
<1> DEFINE fits(j) == (j = 1 \/ n >= Weight[j]) /\ (j = 5 \/ n < Weight[j + 1])
<1>1. ASSUME NEW j \in 1..5, fits(j) PROVE j = k
  BY <1>1, Weights, SMT
<1>2. VarintSize(n) = CHOOSE j \in 1..5 : fits(j)
  BY DEF VarintSize
<1>3. fits(k)
  OBVIOUS
<1> HIDE DEF fits
<1> QED BY <1>1, <1>2, <1>3

\* The size of a varint, by the number.
LEMMA SizeOf ==
  ASSUME NEW n \in Nat
  PROVE  /\ n < 128 => VarintSize(n) = 1
         /\ n >= 128 /\ n < 16384 => VarintSize(n) = 2
         /\ n >= 16384 /\ n < 2097152 => VarintSize(n) = 3
         /\ n >= 2097152 /\ n < 268435456 => VarintSize(n) = 4
         /\ n >= 268435456 => VarintSize(n) = 5
         /\ VarintSize(n) \in 1..5
<1>1. n < 128 => VarintSize(n) = 1
  BY SizeIs, Weights
<1>2. n >= 128 /\ n < 16384 => VarintSize(n) = 2
  BY SizeIs, Weights
<1>3. n >= 16384 /\ n < 2097152 => VarintSize(n) = 3
  BY SizeIs, Weights
<1>4. n >= 2097152 /\ n < 268435456 => VarintSize(n) = 4
  BY SizeIs, Weights
<1>5. n >= 268435456 => VarintSize(n) = 5
  BY SizeIs, Weights
<1> QED BY <1>1, <1>2, <1>3, <1>4, <1>5

\* The i-th seven bits of a number, none of them after its last byte.
Seven(n, i) == IF i > VarintSize(n) THEN 0 ELSE (n \div Weight[i]) % 128

\* A varint is as many bytes as its size says, seven bits in each.
LEMMA VarintBytes ==
  ASSUME NEW n \in Nat
  PROVE  /\ Varint(n) \in Seq(Byte) /\ Len(Varint(n)) = VarintSize(n)
         /\ VarintSize(n) \in 1..5
         /\ \A i \in 1..VarintSize(n) :
              /\ Varint(n)[i] % 128 = Seven(n, i)
              /\ (Varint(n)[i] < 128) <=> (i = VarintSize(n))
<1> DEFINE k == VarintSize(n)
<1>1. k \in 1..5
  BY SizeOf
<1>2. \A i \in 1..5 : Weight[i] \in Nat \ {0}
  BY Weights
<1>3. ASSUME NEW i \in 1..5 PROVE (n \div Weight[i]) % 128 \in 0..127
  <2> DEFINE w == Weight[i]
             q == n \div w
  <2>1. w \in Nat \ {0}
    BY <1>2
  <2> HIDE DEF w
  <2>2. q \in Nat
    BY <2>1
  <2> HIDE DEF q
  <2>3. q % 128 \in 0..127
    BY <2>2
  <2> QED BY <2>3 DEF q, w
<1> HIDE DEF k
<1>4. ASSUME NEW i \in 1..k
      PROVE  /\ Varint(n)[i] = ((n \div Weight[i]) % 128) + (IF i < k THEN 128 ELSE 0)
             /\ Varint(n)[i] \in Byte /\ Varint(n)[i] % 128 = Seven(n, i)
             /\ (Varint(n)[i] < 128) <=> (i = k)
  <2> DEFINE d == (n \div Weight[i]) % 128
  <2>1. Varint(n)[i] = d + (IF i < k THEN 128 ELSE 0)
    BY DEF Varint, k
  <2>2. d \in 0..127
    BY <1>1, <1>3
  <2>3. Seven(n, i) = d
    BY <1>1 DEF Seven, k
  <2> HIDE DEF d
  <2>4. Varint(n)[i] \in Byte /\ Varint(n)[i] % 128 = d /\ ((Varint(n)[i] < 128) <=> (i = k))
    BY <1>1, <2>1, <2>2 DEF Byte
  <2> QED BY <2>1, <2>3, <2>4 DEF d
<1>5. Varint(n) \in [1..k -> Byte]
  <2>1. DOMAIN Varint(n) = 1..k /\ Varint(n) = [i \in 1..k |-> Varint(n)[i]]
    BY DEF Varint, k
  <2> QED BY <1>4, <2>1
<1>6. Varint(n) \in Seq(Byte) /\ Len(Varint(n)) = k
  BY <1>1, <1>5, LenProperties, SeqDef
<1> QED BY <1>1, <1>4, <1>6 DEF k

\* Put together, they are the number.
LEMMA SevensMakeNumber ==
  ASSUME NEW n \in Nat, n <= MaxInt
  PROVE  n = Seven(n, 1) + 128 * (Seven(n, 2) + 128 * (Seven(n, 3)
               + 128 * (Seven(n, 4) + 128 * (Seven(n, 5) % 16))))
<1> DEFINE a == n \div 128
           b == a \div 128
           c == b \div 128
           d == c \div 128
           k == VarintSize(n)
<1>1. n \in Nat /\ a \in Nat /\ b \in Nat /\ c \in Nat /\ d \in Nat
  BY SMT
<1>2. n \div 1 = n /\ n \div 16384 = b /\ n \div 2097152 = c /\ n \div 268435456 = d
  BY SMT
<1>3. d < 16 /\ d % 128 = d /\ d % 16 = d
  <2>1. d < 16
    BY <1>2, SMT DEF MaxInt
  <2> QED BY <1>1, <2>1, SMT
<1>4. /\ Seven(n, 1) = IF 1 > k THEN 0 ELSE n % 128
      /\ Seven(n, 2) = IF 2 > k THEN 0 ELSE a % 128
      /\ Seven(n, 3) = IF 3 > k THEN 0 ELSE b % 128
      /\ Seven(n, 4) = IF 4 > k THEN 0 ELSE c % 128
      /\ Seven(n, 5) = IF 5 > k THEN 0 ELSE d
  BY <1>2, <1>3, Weights, SMT DEF Seven
<1>5. /\ k = 1 => a = 0
      /\ k = 2 => b = 0
      /\ k = 3 => c = 0
      /\ k = 4 => d = 0
      /\ k \in 1..5
  BY <1>1, <1>2, SizeOf, SMT
<1> DEFINE r == n % 128
           s == a % 128
           t == b % 128
           u == c % 128
<1>6. /\ n = r + 128 * a /\ a = s + 128 * b /\ b = t + 128 * c /\ c = u + 128 * d
      /\ r \in Nat /\ s \in Nat /\ t \in Nat /\ u \in Nat
  BY <1>1, SMT
<1> HIDE DEF a, b, c, d, k, r, s, t, u
<1>7. n = r + 128 * (s + 128 * (t + 128 * (u + 128 * d)))
  BY <1>6
<1>8. a = 0 => s = 0 /\ b = 0
  BY <1>1, <1>6
<1>9. b = 0 => t = 0 /\ c = 0
  BY <1>1, <1>6
<1>10. c = 0 => u = 0 /\ d = 0
  BY <1>1, <1>6
<1>11. Seven(n, 1) = r /\ Seven(n, 2) = s /\ Seven(n, 3) = t /\ Seven(n, 4) = u /\ Seven(n, 5) = d
  BY <1>4, <1>5, <1>8, <1>9, <1>10 DEF r, s, t, u
<1> QED BY <1>3, <1>7, <1>11

-----------------------------------------------------------------------------
\* The bytes of a field, and their number.
LEMMA DelimitedBytes ==
  ASSUME NEW tag \in Byte, NEW s \in Seq(Byte)
  PROVE  /\ Delimited(tag, s) \in Seq(Byte)
         /\ Len(Delimited(tag, s)) = 1 + DelimitedSize(Len(s))
         /\ DelimitedSize(Len(s)) \in Nat
<1>1. Len(s) \in Nat
  BY LenProperties
<1> DEFINE v == Varint(Len(s))
<1>2. v \in Seq(Byte) /\ Len(v) = VarintSize(Len(s)) /\ VarintSize(Len(s)) \in 1..5
  BY <1>1, VarintBytes
<1>3. <<tag>> \in Seq(Byte) /\ Len(<<tag>>) = 1
  OBVIOUS
<1> HIDE DEF v
<1>4. <<tag>> \o v \in Seq(Byte) /\ Len(<<tag>> \o v) = 1 + Len(v)
  BY <1>2, <1>3, ConcatProperties
<1>5. /\ (<<tag>> \o v) \o s \in Seq(Byte)
      /\ Len((<<tag>> \o v) \o s) = 1 + Len(v) + Len(s)
  BY <1>4, ConcatProperties
<1> QED BY <1>1, <1>2, <1>5 DEF Delimited, DelimitedSize, v

\* A field of bytes is as long as its size says,
LEMMA FieldBytes ==
  ASSUME NEW tag \in Byte, NEW s \in Seq(Byte)
  PROVE  Field(tag, s) \in Seq(Byte) /\ Len(Field(tag, s)) = FieldSize(s) /\ FieldSize(s) \in Nat
<1>1. CASE s = <<>>
  BY <1>1, EmptySeq DEF Field, FieldSize
<1>2. CASE s # <<>>
  <2>1. Field(tag, s) = Delimited(tag, s) /\ FieldSize(s) = 1 + DelimitedSize(Len(s))
    BY <1>2 DEF Field, FieldSize
  <2> QED BY <2>1, DelimitedBytes
<1> QED BY <1>1, <1>2

\* and so is an enum,
LEMMA EnumFieldBytes ==
  ASSUME NEW tag \in Byte, NEW v \in Nat
  PROVE  EnumField(tag, v) \in Seq(Byte) /\ Len(EnumField(tag, v)) = EnumSize(v) /\ EnumSize(v) \in Nat
<1>1. CASE v = 0
  BY <1>1, EmptySeq DEF EnumField, EnumSize
<1>2. CASE v # 0
  <2>1. Varint(v) \in Seq(Byte) /\ Len(Varint(v)) = VarintSize(v) /\ VarintSize(v) \in 1..5
    BY VarintBytes
  <2>2. <<tag>> \in Seq(Byte) /\ Len(<<tag>>) = 1
    OBVIOUS
  <2>3. <<tag>> \o Varint(v) \in Seq(Byte) /\ Len(<<tag>> \o Varint(v)) = 1 + VarintSize(v)
    BY <2>1, <2>2, ConcatProperties
  <2>4. EnumField(tag, v) = <<tag>> \o Varint(v) /\ EnumSize(v) = 1 + VarintSize(v)
    BY <1>2 DEF EnumField, EnumSize
  <2> QED BY <2>1, <2>3, <2>4
<1> QED BY <1>1, <1>2

\* Every tag is one byte.
LEMMA Tags ==
  /\ TextTag = [username |-> 10, password |-> 18, ip |-> 34, submask |-> 42, gateway |-> 50]
  /\ EnumTag = [type |-> 64, messagecode |-> 72, passwordencrypttype |-> 80, linkencrypttype |-> 88]
  /\ DnsTag = 58 /\ PacketTag = 106 /\ PacketDataTag = 98
  /\ 10 \in Byte /\ 18 \in Byte /\ 34 \in Byte /\ 42 \in Byte /\ 50 \in Byte /\ 58 \in Byte
  /\ 64 \in Byte /\ 72 \in Byte /\ 80 \in Byte /\ 88 \in Byte /\ 98 \in Byte /\ 106 \in Byte
BY DEF TextTag, EnumTag, DnsTag, PacketTag, PacketDataTag, Byte

\* and what is written one after the other.
LEMMA PartsAdd ==
  ASSUME NEW s \in Seq(Byte), NEW t \in Seq(Byte)
  PROVE  s \o t \in Seq(Byte) /\ Len(s \o t) = Len(s) + Len(t) /\ Len(s) \in Nat /\ Len(t) \in Nat
BY ConcatProperties, LenProperties

\* The texts of a message.
LEMMA TextFieldsBytes ==
  ASSUME NEW m \in Message
  PROVE  TextFields(m) \in Seq(Byte) /\ Len(TextFields(m)) = TextsSize(m) /\ TextsSize(m) \in Nat
<1> DEFINE f1 == Field(10, m.username)
           f2 == Field(18, m.password)
           f3 == Field(34, m.ip)
           f4 == Field(42, m.submask)
           f5 == Field(50, m.gateway)
<1>1. /\ f1 \in Seq(Byte) /\ Len(f1) = FieldSize(m.username) /\ FieldSize(m.username) \in Nat
      /\ f2 \in Seq(Byte) /\ Len(f2) = FieldSize(m.password) /\ FieldSize(m.password) \in Nat
      /\ f3 \in Seq(Byte) /\ Len(f3) = FieldSize(m.ip) /\ FieldSize(m.ip) \in Nat
      /\ f4 \in Seq(Byte) /\ Len(f4) = FieldSize(m.submask) /\ FieldSize(m.submask) \in Nat
      /\ f5 \in Seq(Byte) /\ Len(f5) = FieldSize(m.gateway) /\ FieldSize(m.gateway) \in Nat
  BY Tags, FieldBytes DEF Message
<1>2. TextFields(m) = f1 \o f2 \o f3 \o f4 \o f5
  BY Tags DEF TextFields
<1> HIDE DEF f1, f2, f3, f4, f5
<1>3. f1 \o f2 \in Seq(Byte) /\ Len(f1 \o f2) = Len(f1) + Len(f2)
  BY <1>1, PartsAdd
<1>4. f1 \o f2 \o f3 \in Seq(Byte) /\ Len(f1 \o f2 \o f3) = Len(f1) + Len(f2) + Len(f3)
  BY <1>1, <1>3, PartsAdd
<1>5. /\ f1 \o f2 \o f3 \o f4 \in Seq(Byte)
      /\ Len(f1 \o f2 \o f3 \o f4) = Len(f1) + Len(f2) + Len(f3) + Len(f4)
  BY <1>1, <1>4, PartsAdd
<1>6. /\ f1 \o f2 \o f3 \o f4 \o f5 \in Seq(Byte)
      /\ Len(f1 \o f2 \o f3 \o f4 \o f5) = Len(f1) + Len(f2) + Len(f3) + Len(f4) + Len(f5)
  BY <1>1, <1>5, PartsAdd
<1> QED BY <1>1, <1>2, <1>6 DEF TextsSize

\* The enums of a message.
LEMMA EnumFieldsBytes ==
  ASSUME NEW m \in Message
  PROVE  EnumFields(m) \in Seq(Byte) /\ Len(EnumFields(m)) = EnumsSize(m) /\ EnumsSize(m) \in Nat
<1> DEFINE f1 == EnumField(64, m.type)
           f2 == EnumField(72, m.messagecode)
           f3 == EnumField(80, m.passwordencrypttype)
           f4 == EnumField(88, m.linkencrypttype)
<1>1. /\ f1 \in Seq(Byte) /\ Len(f1) = EnumSize(m.type) /\ EnumSize(m.type) \in Nat
      /\ f2 \in Seq(Byte) /\ Len(f2) = EnumSize(m.messagecode) /\ EnumSize(m.messagecode) \in Nat
      /\ f3 \in Seq(Byte) /\ Len(f3) = EnumSize(m.passwordencrypttype)
      /\ EnumSize(m.passwordencrypttype) \in Nat
      /\ f4 \in Seq(Byte) /\ Len(f4) = EnumSize(m.linkencrypttype)
      /\ EnumSize(m.linkencrypttype) \in Nat
  BY Tags, EnumFieldBytes DEF Message
<1>2. EnumFields(m) = f1 \o f2 \o f3 \o f4
  BY Tags DEF EnumFields
<1> HIDE DEF f1, f2, f3, f4
<1>3. f1 \o f2 \in Seq(Byte) /\ Len(f1 \o f2) = Len(f1) + Len(f2)
  BY <1>1, PartsAdd
<1>4. f1 \o f2 \o f3 \in Seq(Byte) /\ Len(f1 \o f2 \o f3) = Len(f1) + Len(f2) + Len(f3)
  BY <1>1, <1>3, PartsAdd
<1>5. /\ f1 \o f2 \o f3 \o f4 \in Seq(Byte)
      /\ Len(f1 \o f2 \o f3 \o f4) = Len(f1) + Len(f2) + Len(f3) + Len(f4)
  BY <1>1, <1>4, PartsAdd
<1> QED BY <1>1, <1>2, <1>5 DEF EnumsSize

\* The packet nested in a message: as many bytes as its length says.
LEMMA PacketFieldBytes ==
  ASSUME NEW m \in Message
  PROVE  /\ PacketField(m) \in Seq(Byte)
         /\ Len(PacketField(m)) =
              IF has_packet(m) THEN 1 + DelimitedSize(PacketSize(m.packet)) ELSE 0
         /\ has_packet(m) => DelimitedSize(PacketSize(m.packet)) \in Nat
<1>1. m.packet.packetdata \in Seq(Byte)
  BY DEF Message
<1>2. /\ SerializePacket(m.packet) \in Seq(Byte)
      /\ Len(SerializePacket(m.packet)) = PacketSize(m.packet)
  BY <1>1, Tags, FieldBytes DEF SerializePacket, PacketSize
<1>3. CASE has_packet(m)
  <2>1. PacketField(m) = Delimited(PacketTag, SerializePacket(m.packet))
    BY <1>3 DEF PacketField
  <2> QED BY <1>2, <1>3, <2>1, Tags, DelimitedBytes
<1>4. CASE ~has_packet(m)
  BY <1>4, EmptySeq DEF PacketField
<1> QED BY <1>3, <1>4

\* The resolvers: two loops, one that writes them and one that adds their sizes.
LEMMA DnsFieldsBytes ==
  ASSUME NEW m \in Message
  PROVE  DnsFields(m) \in Seq(Byte) /\ Len(DnsFields(m)) = DnsSize(m) /\ DnsSize(m) \in Nat
<1> DEFINE N == Len(m.dns)
           part(i) == Delimited(DnsTag, m.dns[i])
           size(i) == DelimitedSize(Len(m.dns[i]))
           seqs == [i \in 1..N |-> part(i)]
<1>1. N \in Nat /\ \A i \in 1..N : m.dns[i] \in Seq(Byte)
  <2>1. m.dns \in Seq(Seq(Byte))
    BY DEF Message
  <2> QED BY <2>1, LenProperties, ElementOfSeq
<1>2. \A i \in 1..N : part(i) \in Seq(Byte) /\ Len(part(i)) = 1 + size(i) /\ size(i) \in Nat
  BY <1>1, Tags, DelimitedBytes
<1> HIDE DEF N, part, size
<1>3. seqs \in Seq(Seq(Byte)) /\ Len(seqs) = N /\ \A i \in 1..N : seqs[i] = part(i)
  <2>1. seqs \in [1..N -> Seq(Byte)] /\ \A i \in 1..N : seqs[i] = part(i)
    BY <1>2
  <2> HIDE DEF seqs
  <2>2. seqs \in Seq(Seq(Byte))
    BY <1>1, <2>1, SeqDef
  <2>3. Len(seqs) \in Nat /\ DOMAIN seqs = 1..Len(seqs) /\ DOMAIN seqs = 1..N
    BY <2>1, <2>2, LenProperties
  <2>4. Len(seqs) = N
    BY <1>1, <2>3
  <2> QED BY <2>1, <2>2, <2>4
<1> DEFINE Sum(g) == g = [n \in 0..N |-> IF n = 0 THEN 0 ELSE g[n - 1] + 1 + size(n)]
           Cat(g) == g = [i \in 1..N |-> IF i = 1 THEN seqs[i] ELSE g[i - 1] \o seqs[i]]
           sum == CHOOSE g : Sum(g)
           cat == CHOOSE g : Cat(g)
<1>4. Sum(sum)
  <2> DEFINE step == [p \in Nat \X Nat |-> IF p[2] \in 1..N THEN p[1] + 1 + size(p[2]) ELSE 0]
  <2>1. step \in Steps(Nat)
    BY <1>2 DEF Steps
  <2>2. \A x \in Nat, i \in 1..N : step[<<x, i>>] = x + 1 + size(i)
    BY <1>1
  <2> HIDE DEF step
  <2> HIDE DEF Sum
  <2>3. Defined(Nat, 0, step, N)
    BY <1>1, <2>1, Recursion
  <2>4. PICK g \in [0..N -> Nat] : g[0] = 0 /\ \A i \in 1..N : g[i] = step[<<g[i - 1], i>>]
    BY <2>3 DEF Defined
  <2>5. ASSUME NEW i \in 1..N PROVE g[i] = g[i - 1] + 1 + size(i)
    <3>1. i - 1 \in 0..N /\ g[i - 1] \in Nat
      BY <1>1, <2>4
    <3> QED BY <2>2, <2>4, <3>1
  <2>6. \A i \in 0..N : g[i] = IF i = 0 THEN 0 ELSE g[i - 1] + 1 + size(i)
    BY <1>1, <2>4, <2>5
  <2>7. Sum(g)
    BY <2>4, <2>6 DEF Sum
  <2> QED BY <2>7
<1>5. Cat(cat)
  <2> DEFINE S == Seq(Byte)
             step == [p \in S \X Nat |-> IF p[2] \in 1..N THEN p[1] \o seqs[p[2]] ELSE <<>>]
  <2>1. ASSUME NEW x \in S, NEW i \in 1..N PROVE x \o seqs[i] \in S
    BY <1>2, <1>3, PartsAdd
  <2>2. <<>> \in S
    BY EmptySeq
  <2> HIDE DEF seqs
  <2>3. \A p \in S \X Nat : (IF p[2] \in 1..N THEN p[1] \o seqs[p[2]] ELSE <<>>) \in S
    <3> TAKE p \in S \X Nat
    <3>1. p[1] \in S
      OBVIOUS
    <3> QED BY <2>1, <2>2, <3>1
  <2>4. step \in Steps(S)
    BY <2>3 DEF Steps
  <2> HIDE DEF S
  <2>5. ASSUME NEW x \in S, NEW i \in 1..N PROVE step[<<x, i>>] = x \o seqs[i]
    <3>1. <<x, i>> \in S \X Nat
      BY <1>1
    <3> QED BY <1>1, <3>1
  <2> HIDE DEF step, Cat
  <2>6. Defined(S, <<>>, step, N)
    BY <1>1, <2>2, <2>4, Recursion
  <2>7. PICK g \in [0..N -> S] : g[0] = <<>> /\ \A i \in 1..N : g[i] = step[<<g[i - 1], i>>]
    BY <2>6 DEF Defined
  <2>8. ASSUME NEW i \in 1..N PROVE g[i] = g[i - 1] \o seqs[i]
    <3>1. i - 1 \in 0..N /\ g[i - 1] \in S
      BY <1>1, <2>7
    <3> QED BY <2>5, <2>7, <3>1
  <2>9. 1 \in 1..N => g[1] = seqs[1]
    <3> SUFFICES ASSUME 1 \in 1..N PROVE g[1] = seqs[1]
      OBVIOUS
    <3>1. g[1] = g[1 - 1] \o seqs[1]
      BY <2>8
    <3>2. g[1 - 1] = <<>>
      BY <2>7
    <3>3. seqs[1] \in Seq(Byte)
      BY <1>2, <1>3
    <3> QED BY <3>1, <3>2, <3>3, ConcatEmptySeq
  <2> DEFINE h == [i \in 1..N |-> g[i]]
  <2>10. \A i \in 1..N : h[i] = IF i = 1 THEN seqs[i] ELSE h[i - 1] \o seqs[i]
    <3> TAKE i \in 1..N
    <3>1. i # 1 => i - 1 \in 1..N /\ h[i - 1] = g[i - 1]
      BY <1>1
    <3> QED BY <2>8, <2>9, <3>1
  <2>11. h = [i \in 1..N |-> h[i]]
    OBVIOUS
  <2> HIDE DEF h
  <2>12. Cat(h)
    BY <2>10, <2>11 DEF Cat
  <2> QED BY <2>12
<1>6. DnsSize(m) = sum[N]
  BY DEF DnsSize, N, size
<1>7. DnsFields(m) = IF N = 0 THEN seqs ELSE cat[N]
  <2>1. DnsFields(m) = FlattenSeq(seqs)
    BY DEF DnsFields, N, part
  <2> HIDE DEF seqs
  <2>2. FlattenSeq(seqs) = IF N = 0 THEN seqs ELSE cat[N]
    BY <1>3 DEF FlattenSeq
  <2> QED BY <2>1, <2>2
<1> HIDE DEF seqs, sum, cat
<1>8. sum[0] = 0 /\ \A n \in 1..N : sum[n] = sum[n - 1] + 1 + size(n)
  BY <1>1, <1>4
<1>9. \A i \in 1..N : cat[i] = IF i = 1 THEN seqs[i] ELSE cat[i - 1] \o seqs[i]
  BY <1>1, <1>5
<1> DEFINE Fine(n) == sum[n] \in Nat /\ (n > 0 => cat[n] \in Seq(Byte) /\ Len(cat[n]) = sum[n])
           T == {n \in Nat : n <= N => Fine(n)}
<1>10. Nat \subseteq T
  <2>1. 0 \in T
    BY <1>8
  <2>2. ASSUME NEW n \in Nat, n \in T PROVE n + 1 \in T
    <3> SUFFICES ASSUME n + 1 <= N PROVE Fine(n + 1)
      OBVIOUS
    <3> DEFINE k == n + 1
    <3>1. k \in 1..N /\ k - 1 = n /\ n <= N
      BY <1>1
    <3>2. Fine(n)
      BY <2>2, <3>1
    <3> HIDE DEF k
    <3>3. sum[k] = sum[n] + 1 + size(k) /\ size(k) \in Nat /\ sum[n] \in Nat
      BY <1>2, <1>8, <3>1, <3>2
    <3>4. seqs[k] \in Seq(Byte) /\ Len(seqs[k]) = 1 + size(k)
      BY <1>2, <1>3, <3>1
    <3>5. CASE n = 0
      <4>1. cat[k] = seqs[k] /\ sum[n] = 0
        BY <1>8, <1>9, <3>1, <3>5
      <4>2. sum[k] = 1 + size(k)
        BY <3>3, <4>1
      <4> QED BY <3>3, <3>4, <4>1, <4>2 DEF k
    <3>6. CASE n > 0
      <4>1. cat[k] = cat[n] \o seqs[k]
        <5>1. k # 1 /\ k - 1 = n
          BY <3>1, <3>6
        <5>2. cat[k] = IF k = 1 THEN seqs[k] ELSE cat[k - 1] \o seqs[k]
          BY <1>9, <3>1
        <5> QED BY <5>1, <5>2
      <4>2. cat[n] \in Seq(Byte) /\ Len(cat[n]) = sum[n]
        BY <3>2, <3>6
      <4>3. cat[k] \in Seq(Byte) /\ Len(cat[k]) = sum[n] + (1 + size(k))
        BY <3>4, <4>1, <4>2, PartsAdd
      <4>4. sum[k] = sum[n] + (1 + size(k)) /\ sum[k] \in Nat
        BY <3>3
      <4> QED BY <4>3, <4>4 DEF k
    <3> QED BY <3>5, <3>6
  <2> HIDE DEF T
  <2> QED BY <2>1, <2>2, SetInduction
<1>11. Fine(N)
  BY <1>1, <1>10
<1>12. CASE N = 0
  <2>1. seqs = <<>>
    BY <1>3, <1>12, EmptySeq
  <2> QED BY <1>6, <1>7, <1>8, <1>12, <2>1, EmptySeq
<1>13. CASE N # 0
  BY <1>1, <1>6, <1>7, <1>11, <1>13
<1> QED BY <1>12, <1>13

(***************************************************************************)
(* For every message, ByteSize, from which both programs allocate the      *)
(* buffer and write the frame's length, is the number of the bytes that    *)
(* SerializeToArray writes into it.                                        *)
(***************************************************************************)
THEOREM SizeCountsBytes ==
  ASSUME NEW m \in Message
  PROVE  /\ Serialize(m) \in Seq(Byte)
         /\ ByteSizeLong(m) \in Nat /\ Len(Serialize(m)) = ByteSizeLong(m)
<1> DEFINE f1 == TextFields(m)
           f2 == DnsFields(m)
           f3 == EnumFields(m)
           f4 == PacketField(m)
           last == IF has_packet(m) THEN 1 + DelimitedSize(PacketSize(m.packet)) ELSE 0
<1>1. /\ f1 \in Seq(Byte) /\ Len(f1) = TextsSize(m) /\ TextsSize(m) \in Nat
      /\ f2 \in Seq(Byte) /\ Len(f2) = DnsSize(m) /\ DnsSize(m) \in Nat
      /\ f3 \in Seq(Byte) /\ Len(f3) = EnumsSize(m) /\ EnumsSize(m) \in Nat
      /\ f4 \in Seq(Byte) /\ Len(f4) = last /\ last \in Nat
  BY TextFieldsBytes, DnsFieldsBytes, EnumFieldsBytes, PacketFieldBytes
<1>2. ByteSizeLong(m) = TextsSize(m) + DnsSize(m) + EnumsSize(m) + last
  BY DEF ByteSizeLong
<1>3. Serialize(m) = f1 \o f2 \o f3 \o f4
  BY DEF Serialize
<1> HIDE DEF f1, f2, f3, f4, last
<1>4. f1 \o f2 \in Seq(Byte) /\ Len(f1 \o f2) = Len(f1) + Len(f2)
  BY <1>1, PartsAdd
<1>5. f1 \o f2 \o f3 \in Seq(Byte) /\ Len(f1 \o f2 \o f3) = Len(f1) + Len(f2) + Len(f3)
  BY <1>1, <1>4, PartsAdd
<1>6. /\ f1 \o f2 \o f3 \o f4 \in Seq(Byte)
      /\ Len(f1 \o f2 \o f3 \o f4) = Len(f1) + Len(f2) + Len(f3) + Len(f4)
  BY <1>1, <1>5, PartsAdd
<1> QED BY <1>1, <1>2, <1>3, <1>6

-----------------------------------------------------------------------------
\* The library's primitives stay within the limit, ...
Limited == input \in Seq(Byte) /\ limit \in 0..Len(input)

\* What a limit within the body means.
LEMMA LimitedFacts ==
  ASSUME Limited
  PROVE  /\ Len(input) \in Nat /\ limit \in Nat /\ limit <= Len(input)
         /\ \A q \in 1..limit : input[q] \in 0..255
<1>1. Len(input) \in Nat
  BY LenProperties DEF Limited
<1>2. \A q \in 1..Len(input) : input[q] \in Byte
  BY ElementOfSeq DEF Limited
<1> QED BY <1>1, <1>2 DEF Limited, Byte

\* What a varint says is a number,
LEMMA NumberIsNat ==
  ASSUME Limited, NEW p \in Nat \ {0}, NEW last \in Nat, last <= limit
  PROVE  Number(p, last) \in Nat
<1>1. ASSUME NEW i \in 0..4 PROVE Bits(p, last, i) \in Nat
  <2>1. p + i <= last => p + i \in 1..limit /\ input[p + i] \in 0..255
    BY LimitedFacts
  <2>2. p + i <= last => input[p + i] % 128 \in Nat
    BY <2>1
  <2> QED BY <2>2 DEF Bits
<1>2. Bits(p, last, 4) % 16 \in Nat
  BY <1>1
<1> QED BY <1>1, <1>2 DEF Number

\* and it ends within the limit, or is none.
LEMMA VarintWithin ==
  ASSUME Limited, NEW p \in Nat \ {0}
  PROVE  LET v == VarintAt(p)
         IN  \/ v.ok = TRUE /\ v.value \in Nat /\ v.next \in (p + 1)..(limit + 1)
             \/ v.ok = FALSE /\ v.value = 0 /\ v.next = pos
<1>1. CASE \E q \in p..(p + 9) : EndsAt(p, q)
  <2> DEFINE last == CHOOSE q \in p..(p + 9) : EndsAt(p, q)
  <2>1. last \in p..(p + 9) /\ EndsAt(p, last)
    BY <1>1
  <2>2. VarintAt(p) = [ok |-> TRUE, value |-> Number(p, last), next |-> last + 1]
    BY <1>1 DEF VarintAt
  <2> HIDE DEF last
  <2>3. last \in Nat /\ p <= last /\ last <= limit
    BY <2>1, LimitedFacts DEF EndsAt
  <2>4. Number(p, last) \in Nat
    BY <2>3, NumberIsNat
  <2> QED BY <2>2, <2>3, <2>4, LimitedFacts
<1>2. CASE ~\E q \in p..(p + 9) : EndsAt(p, q)
  BY <1>2 DEF VarintAt, Failure
<1> QED BY <1>1, <1>2

\* A length is a varint that fits an int.
LEMMA LengthFacts ==
  ASSUME NEW p
  PROVE  /\ LengthAt(p).value = VarintAt(p).value /\ LengthAt(p).next = VarintAt(p).next
         /\ LengthAt(p).ok = (VarintAt(p).ok /\ VarintAt(p).value <= MaxInt)
<1>1. VarintAt(p) = [ok |-> VarintAt(p).ok, value |-> VarintAt(p).value, next |-> VarintAt(p).next]
  BY DEF VarintAt, Failure
<1> DEFINE v == VarintAt(p)
<1> HIDE DEF v
<1>2. DOMAIN v = {"ok", "value", "next"}
  BY <1>1 DEF v
<1>3. LengthAt(p) = [v EXCEPT !.ok = @ /\ v.value <= MaxInt]
  BY DEF LengthAt, v
<1> QED BY <1>2, <1>3 DEF v

\* The smaller of two numbers.
LEMMA MinOfTwo ==
  ASSUME NEW a \in Int, NEW b \in Int
  PROVE  Min({a, b}) = IF a <= b THEN a ELSE b
<1> DEFINE m == IF a <= b THEN a ELSE b
           T == {a, b}
<1>1. m \in T /\ \A y \in T : m <= y
  OBVIOUS
<1>2. ASSUME NEW x \in T, \A y \in T : x <= y PROVE x = m
  <2>1. x <= m /\ m <= x /\ x \in Int /\ m \in Int
    BY <1>1, <1>2
  <2> QED BY <2>1
<1>3. Min(T) = CHOOSE x \in T : \A y \in T : x <= y
  BY DEF Min
<1> HIDE DEF m, T
<1>4. Min(T) = m
  BY <1>1, <1>2, <1>3
<1> QED BY <1>4 DEF m, T

\* What is read behind a length lies within the limit.
LEMMA BytesWithin ==
  ASSUME Limited, NEW p \in Nat \ {0}
  PROVE  LET b == BytesAt(p)
         IN  /\ b.ok \in BOOLEAN /\ b.value \in Seq(Byte)
             /\ b.ok => b.next \in (p + 1)..(limit + 1)
<1> DEFINE l == LengthAt(p)
           last == Min({limit, l.next + l.value - 1})
<1>1. /\ l.ok \in BOOLEAN
      /\ l.ok => l.value \in Nat /\ l.next \in (p + 1)..(limit + 1)
  BY VarintWithin, LengthFacts
<1>2. BytesAt(p) = [ok |-> l.ok /\ l.value <= limit + 1 - l.next,
                    value |-> IF l.ok THEN SubSeq(input, l.next, last) ELSE <<>>,
                    next |-> l.next + l.value]
  BY DEF BytesAt
<1> HIDE DEF l, last
<1>3. CASE l.ok
  <2>1. last \in Int /\ last <= limit /\ l.next \in Nat \ {0}
    <3> DEFINE e == l.next + l.value - 1
    <3>1. e \in Int /\ limit \in Int /\ l.next \in Nat \ {0}
      BY <1>1, <1>3, LimitedFacts
    <3>2. last = IF limit <= e THEN limit ELSE e
      BY <3>1, MinOfTwo DEF last
    <3> HIDE DEF e
    <3> QED BY <3>1, <3>2
  <2>2. ASSUME NEW i \in l.next..last PROVE input[i] \in Byte
    <3>1. i \in 1..limit
      BY <2>1, LimitedFacts
    <3> QED BY <3>1, LimitedFacts DEF Byte
  <2>3. SubSeq(input, l.next, last) \in Seq(Byte)
    BY <2>1, <2>2, SubSeqProperties
  <2>4. l.value <= limit + 1 - l.next => l.next + l.value \in (p + 1)..(limit + 1)
    BY <1>1, <1>3, LimitedFacts
  <2>5. BytesAt(p).value = SubSeq(input, l.next, last) /\ BytesAt(p).next = l.next + l.value
    <3>1. /\ BytesAt(p).value = IF l.ok THEN SubSeq(input, l.next, last) ELSE <<>>
          /\ BytesAt(p).next = l.next + l.value
      BY <1>2
    <3> QED BY <1>3, <3>1
  <2>6. BytesAt(p).ok = (l.ok /\ l.value <= limit + 1 - l.next)
    BY <1>2
  <2>7. BytesAt(p).ok \in BOOLEAN /\ (BytesAt(p).ok => l.value <= limit + 1 - l.next)
    BY <2>6
  <2> QED BY <2>3, <2>4, <2>5, <2>7
<1>4. CASE ~l.ok
  <2>1. BytesAt(p).value = <<>> /\ BytesAt(p).ok = (l.ok /\ l.value <= limit + 1 - l.next)
    BY <1>2, <1>4
  <2>2. BytesAt(p).ok = FALSE
    BY <1>1, <1>4, <2>1
  <2> QED BY <2>1, <2>2, EmptySeq
<1> QED BY <1>1, <1>3, <1>4

\* ... and so do the tag and whatever is skipped.
LEMMA TagWithin ==
  ASSUME Limited, pos \in 1..(limit + 1)
  PROVE  /\ AfterTag \in pos..(limit + 1)
         /\ Tag # 0 => AfterTag > pos
         /\ pos > limit => Tag = 0
<1>1. pos \in Nat \ {0} /\ limit \in Nat
  BY LimitedFacts
<1>2. \/ VarintAt(pos).next \in (pos + 1)..(limit + 1)
      \/ VarintAt(pos).value = 0 /\ VarintAt(pos).next = pos
  BY <1>1, VarintWithin
<1> QED BY <1>1, <1>2 DEF Tag, AfterTag

\* SkipField fails or ends up behind the tag, within the limit.
LEMMA SkipWithin ==
  ASSUME Limited, pos \in 1..(limit + 1), ~EndsMessage, NEW p \in SkipEnds
  PROVE  p = 0 \/ p \in (pos + 1)..(limit + 1)
<1> DEFINE a == AfterTag
           ends == (a + 1)..(limit + 1)
           fixed(n) == IF a + n <= limit + 1 THEN a + n ELSE 0
<1>1. /\ a \in Nat \ {0} /\ limit \in Nat /\ pos \in Nat
      /\ a > pos /\ a <= limit + 1
  BY TagWithin, LimitedFacts DEF EndsMessage
<1> HIDE DEF a
<1>2. VarintAt(a).ok => VarintAt(a).next \in ends
  BY <1>1, VarintWithin
<1>3. BytesAt(a).ok => BytesAt(a).next \in ends
  BY <1>1, BytesWithin
<1>4. fixed(8) = 0 \/ fixed(8) \in ends
  BY <1>1
<1>5. fixed(4) = 0 \/ fixed(4) \in ends
  BY <1>1
<1>6. \/ p = 0
      \/ p = (IF VarintAt(a).ok THEN VarintAt(a).next ELSE 0)
      \/ p = fixed(8) \/ p = fixed(4)
      \/ p = (IF BytesAt(a).ok THEN BytesAt(a).next ELSE 0)
      \/ p \in a..(limit + 1)
  <2> DEFINE ws == WireType(Tag)
  <2>1. ws = 0 \/ ws = 1 \/ ws = 2 \/ ws = 3 \/ ws = 5 \/ ws \notin {0, 1, 2, 3, 5}
    OBVIOUS
  <2> QED BY <2>1 DEF SkipEnds, a
<1> QED BY <1>1, <1>2, <1>3, <1>4, <1>5, <1>6

-----------------------------------------------------------------------------
\* What stands at a place, within the limit, is read as what it is.
Stands(p, t) == p + Len(t) <= limit + 1 /\ \A i \in 1..Len(t) : input[p + i - 1] = t[i]

\* Of two parts in a row, the first stands there and the second behind it.
LEMMA StandInTurn ==
  ASSUME Limited, NEW p \in Nat \ {0}, NEW s \in Seq(Byte), NEW t \in Seq(Byte), Stands(p, s \o t)
  PROVE  Stands(p, s) /\ Stands(p + Len(s), t)
<1>1. /\ Len(s) \in Nat /\ Len(t) \in Nat /\ limit \in Nat
      /\ Len(s \o t) = Len(s) + Len(t)
  BY LimitedFacts, PartsAdd
<1>2. \A i \in 1..(Len(s) + Len(t)) : (s \o t)[i] = IF i <= Len(s) THEN s[i] ELSE t[i - Len(s)]
  BY ConcatProperties
<1>3. \A i \in 1..(Len(s) + Len(t)) : input[p + i - 1] = (s \o t)[i]
  BY <1>1 DEF Stands
<1>4. ASSUME NEW i \in 1..Len(s) PROVE input[p + i - 1] = s[i]
  <2>1. i \in 1..(Len(s) + Len(t)) /\ i <= Len(s)
    BY <1>1
  <2> QED BY <1>2, <1>3, <2>1
<1>5. ASSUME NEW i \in 1..Len(t) PROVE input[p + Len(s) + i - 1] = t[i]
  <2> DEFINE j == Len(s) + i
  <2>1. j \in 1..(Len(s) + Len(t)) /\ ~(j <= Len(s)) /\ j - Len(s) = i
    BY <1>1
  <2>2. p + Len(s) + i - 1 = p + j - 1
    BY <1>1
  <2> HIDE DEF j
  <2> QED BY <1>2, <1>3, <2>1, <2>2
<1>6. p + Len(s) <= limit + 1 /\ p + Len(s) + Len(t) <= limit + 1
  BY <1>1 DEF Stands
<1> QED BY <1>4, <1>5, <1>6 DEF Stands

\* A varint that was written is read back.
LEMMA VarintRead ==
  ASSUME Limited, NEW p \in Nat \ {0}, NEW n \in Nat, n <= MaxInt, Stands(p, Varint(n))
  PROVE  VarintAt(p) = [ok |-> TRUE, value |-> n, next |-> p + VarintSize(n)]
<1> DEFINE k == VarintSize(n)
           last == p + k - 1
           v == Varint(n)
<1>1. /\ k \in 1..5 /\ Len(v) = k
      /\ \A i \in 1..k : v[i] \in Byte /\ v[i] % 128 = Seven(n, i) /\ ((v[i] < 128) <=> (i = k))
  BY VarintBytes, ElementOfSeq
<1>2. \A i \in 1..k : input[p + i - 1] = v[i]
  BY <1>1 DEF Stands
<1>3. limit \in Nat /\ last <= limit
  BY <1>1, LimitedFacts DEF Stands
<1>4. \A i \in (k + 1)..5 : Seven(n, i) = 0
  BY <1>1 DEF Seven
<1> HIDE DEF k, v
<1>5. last \in p..(p + 9)
  BY <1>1
<1>6. EndsAt(p, last)
  <2>1. input[last] < 128
    <3>1. k \in 1..k
      BY <1>1
    <3> QED BY <1>1, <1>2, <3>1
  <2>2. ASSUME NEW r \in p..(last - 1) PROVE input[r] >= 128
    <3> DEFINE i == r - p + 1
    <3>1. i \in 1..k /\ i # k /\ r = p + i - 1
      BY <1>1
    <3> HIDE DEF i
    <3>2. input[r] = v[i] /\ v[i] \in 0..255 /\ ~(v[i] < 128)
      BY <1>1, <1>2, <3>1 DEF Byte
    <3> QED BY <3>2
  <2> QED BY <1>3, <2>1, <2>2 DEF EndsAt
<1> HIDE DEF last
<1>7. ASSUME NEW q \in p..(p + 9), EndsAt(p, q) PROVE q = last
  <2>1. ~(q < last)
    <3> SUFFICES ASSUME q < last PROVE FALSE
      OBVIOUS
    <3>1. q \in p..(last - 1) /\ q \in 1..limit
      BY <1>3, <1>5
    <3>2. input[q] >= 128 /\ input[q] < 128 /\ input[q] \in 0..255
      BY <1>6, <1>7, <3>1, LimitedFacts DEF EndsAt
    <3> QED BY <3>2
  <2>2. ~(q > last)
    <3> SUFFICES ASSUME q > last PROVE FALSE
      OBVIOUS
    <3>1. last \in p..(q - 1) /\ last \in 1..limit
      BY <1>3, <1>5
    <3>2. input[last] >= 128 /\ input[last] < 128 /\ input[last] \in 0..255
      BY <1>6, <1>7, <3>1, LimitedFacts DEF EndsAt
    <3> QED BY <3>2
  <2> QED BY <1>5, <2>1, <2>2
<1>8. VarintAt(p) = [ok |-> TRUE, value |-> Number(p, last), next |-> last + 1]
  <2>1. (CHOOSE q \in p..(p + 9) : EndsAt(p, q)) = last
    BY <1>5, <1>6, <1>7
  <2> QED BY <1>5, <1>6, <2>1 DEF VarintAt
<1>9. ASSUME NEW i \in 0..4 PROVE Bits(p, last, i) = Seven(n, i + 1)
  <2>1. CASE p + i > last
    <3>1. i + 1 \in (k + 1)..5
      BY <1>1, <2>1 DEF last
    <3> QED BY <1>4, <2>1, <3>1 DEF Bits
  <2>2. CASE ~(p + i > last)
    <3> DEFINE j == i + 1
    <3>1. j \in 1..k /\ p + j - 1 = p + i
      BY <1>1, <2>2 DEF last
    <3> HIDE DEF j
    <3>2. input[p + i] = v[j] /\ v[j] % 128 = Seven(n, j)
      BY <1>1, <1>2, <3>1
    <3> QED BY <2>2, <3>2 DEF Bits, j
  <2> QED BY <2>1, <2>2
<1>10. Number(p, last) = n
  <2>1. /\ Bits(p, last, 0) = Seven(n, 1) /\ Bits(p, last, 1) = Seven(n, 2)
        /\ Bits(p, last, 2) = Seven(n, 3) /\ Bits(p, last, 3) = Seven(n, 4)
        /\ Bits(p, last, 4) = Seven(n, 5)
    BY <1>9
  <2> QED BY <2>1, SevensMakeNumber DEF Number
<1>11. last + 1 = p + k
  BY <1>1 DEF last
<1> QED BY <1>8, <1>10, <1>11 DEF k

\* A byte without its top bit is a varint of its own.
LEMMA ByteRead ==
  ASSUME Limited, NEW p \in 1..limit, NEW b \in 0..127, input[p] = b
  PROVE  VarintAt(p) = [ok |-> TRUE, value |-> b, next |-> p + 1]
<1>1. VarintSize(b) = 1
  BY SizeOf
<1>2. Varint(b)[1] = b /\ Len(Varint(b)) = 1
  <2>1. Varint(b)[1] = ((b \div Weight[1]) % 128) + (IF 1 < VarintSize(b) THEN 128 ELSE 0)
    BY <1>1 DEF Varint
  <2>2. b \div Weight[1] = b
    BY Weights, SMT
  <2>3. b % 128 = b
    BY SMT
  <2>4. Len(Varint(b)) = VarintSize(b)
    <3>1. b \in Nat
      OBVIOUS
    <3> QED BY <3>1, VarintBytes
  <2> QED BY <1>1, <2>1, <2>2, <2>3, <2>4
<1>3. Stands(p, Varint(b)) /\ p \in Nat \ {0}
  <2>1. \A i \in 1..1 : p + i - 1 = p /\ i = 1
    BY LimitedFacts
  <2>2. p + 1 <= limit + 1 /\ p \in Nat \ {0}
    BY LimitedFacts
  <2> QED BY <1>2, <2>1, <2>2 DEF Stands
<1>4. b <= MaxInt
  BY SMT DEF MaxInt
<1> QED BY <1>1, <1>3, <1>4, VarintRead

\* A tag is read back,
LEMMA TagRead ==
  ASSUME Limited, pos \in 1..limit, NEW b \in 0..127, input[pos] = b
  PROVE  Tag = b /\ AfterTag = pos + 1
<1>1. VarintAt(pos) = [ok |-> TRUE, value |-> b, next |-> pos + 1]
  BY ByteRead
<1>2. ~(pos > limit)
  BY LimitedFacts
<1> QED BY <1>1, <1>2 DEF Tag, AfterTag

\* and so are bytes behind their length.
LEMMA BytesRead ==
  ASSUME Limited, NEW p \in Nat \ {0}, NEW s \in Seq(Byte), Len(s) <= MaxInt,
         Stands(p, Varint(Len(s)) \o s)
  PROVE  /\ LengthAt(p).ok = TRUE
         /\ BytesAt(p) = [ok |-> TRUE, value |-> s, next |-> p + DelimitedSize(Len(s))]
<1> DEFINE n == Len(s)
           k == VarintSize(n)
           l == LengthAt(p)
<1>1. n \in Nat /\ limit \in Nat /\ limit <= Len(input) /\ Len(input) \in Nat
  BY LenProperties, LimitedFacts
<1>2. Varint(n) \in Seq(Byte) /\ Len(Varint(n)) = k /\ k \in 1..5
  BY <1>1, VarintBytes
<1>3. Stands(p, Varint(n)) /\ Stands(p + k, s)
  BY <1>2, StandInTurn
<1>4. VarintAt(p) = [ok |-> TRUE, value |-> n, next |-> p + k]
  BY <1>1, <1>3, VarintRead
<1> HIDE DEF k
<1>5. l.ok = TRUE /\ l.value = n /\ l.next = p + k
  <2>1. VarintAt(p).ok = TRUE /\ VarintAt(p).value = n /\ VarintAt(p).next = p + k
    BY <1>4
  <2>2. /\ l.ok = (VarintAt(p).ok /\ VarintAt(p).value <= MaxInt)
        /\ l.value = VarintAt(p).value /\ l.next = VarintAt(p).next
    BY LengthFacts
  <2> QED BY <2>1, <2>2
<1> HIDE DEF n
<1>6. p + k + n <= limit + 1 /\ \A i \in 1..n : input[p + k + i - 1] = s[i]
  BY <1>3 DEF Stands, n
<1>7. BytesAt(p) = [ok |-> n <= limit + 1 - (p + k),
                    value |-> SubSeq(input, p + k, Min({limit, p + k + n - 1})),
                    next |-> p + k + n]
  <2>1. BytesAt(p) = [ok |-> l.ok /\ l.value <= limit + 1 - l.next,
                      value |-> IF l.ok THEN SubSeq(input, l.next, Min({limit, l.next + l.value - 1}))
                                ELSE <<>>,
                      next |-> l.next + l.value]
    BY DEF BytesAt
  <2> HIDE DEF l
  <2>2. (l.ok /\ l.value <= limit + 1 - l.next) = (n <= limit + 1 - (p + k))
    BY <1>5
  <2>3. (IF l.ok THEN SubSeq(input, l.next, Min({limit, l.next + l.value - 1})) ELSE <<>>)
          = SubSeq(input, p + k, Min({limit, p + k + n - 1}))
    BY <1>5
  <2>4. l.next + l.value = p + k + n
    BY <1>5
  <2> QED BY <2>1, <2>2, <2>3, <2>4
<1>8. Min({limit, p + k + n - 1}) = p + k + n - 1
  <2> DEFINE e == p + k + n - 1
  <2>1. e \in Int /\ limit \in Int /\ e <= limit
    BY <1>1, <1>2, <1>6
  <2> HIDE DEF e
  <2>2. Min({limit, e}) = e
    BY <2>1, MinOfTwo
  <2> QED BY <2>2 DEF e
<1>9. SubSeq(input, p + k, p + k + n - 1) = s
  <2> DEFINE a == p + k
             e == a + n - 1
             sub == SubSeq(input, a, e)
  <2>1. a \in Nat \ {0} /\ e \in Int /\ e <= limit /\ e - a + 1 = n
    BY <1>1, <1>2, <1>6
  <2>2. \A i \in 1..n : input[a + i - 1] = s[i]
    BY <1>6
  <2> HIDE DEF a, e
  <2>3. ASSUME NEW i \in a..e PROVE input[i] \in Byte
    <3>1. i \in 1..limit
      BY <1>1, <2>1
    <3> QED BY <3>1, LimitedFacts DEF Byte
  <2>4. /\ sub \in Seq(Byte) /\ Len(sub) = (IF a <= e THEN e - a + 1 ELSE 0)
        /\ \A i \in 1..(e - a + 1) : sub[i] = input[a + i - 1]
    BY <2>1, <2>3, SubSeqProperties
  <2>5. Len(sub) = n /\ \A i \in 1..n : sub[i] = s[i]
    BY <1>1, <2>1, <2>2, <2>4
  <2>6. sub = s
    BY <2>4, <2>5, SeqEqual DEF n
  <2> QED BY <2>6 DEF a, e
<1>10. (n <= limit + 1 - (p + k)) = TRUE /\ p + k + n = p + DelimitedSize(n)
  BY <1>1, <1>2, <1>6 DEF DelimitedSize, k
<1> QED BY <1>5, <1>7, <1>8, <1>9, <1>10 DEF n

-----------------------------------------------------------------------------
\* The constants and the messages.
LEMMA ConstantTypes ==
  /\ Names \subseteq Seq(Byte) /\ PacketSizes \subseteq Nat /\ Alphabet \subseteq Byte
  /\ StrayLength \in Nat /\ MaxBody \in Nat
<1>1. ASSUME NEW n \in PacketSizes PROVE n \in Nat
  BY ParserAssumption, SMT
<1> QED BY <1>1, ParserAssumption, SMT

\* A function on 1..n is a sequence.
LEMMA SeqOfFunction ==
  ASSUME NEW n \in Nat, NEW S, NEW f \in [1..n -> S]
  PROVE  f \in Seq(S) /\ Len(f) = n
<1>1. f \in Seq(S)
  BY SeqDef
<1>2. Len(f) \in Nat /\ DOMAIN f = 1..Len(f) /\ DOMAIN f = 1..n
  BY <1>1, LenProperties
<1> QED BY <1>1, <1>2

\* A text is bytes.
LEMMA TextIsSeq ==
  ASSUME NEW n \in Nat
  PROVE  Text(n) \in Seq(Byte) /\ Len(Text(n)) = n
<1>1. Text(n) \in [1..n -> Byte]
  BY DEF Text, Letter, Byte
<1> QED BY <1>1, SeqOfFunction

\* What the programs build are messages: the new one,
LEMMA NewMessageType == NewMessage \in Message
BY EmptySeq DEF NewMessage, NoPacket, Message

\* the requests,
LEMMA RequestTypes == Requests \subseteq Message
<1>1. ASSUME NEW u \in Names, NEW p \in Names PROVE EstablishRequest(u, p) \in Message
  BY ConstantTypes, NewMessageType DEF EstablishRequest, REQUEST, ESTABLISH, Message
<1>2. ASSUME NEW n \in PacketSizes PROVE DataRequest(Text(n)) \in Message
  <2>1. n \in Nat
    BY ConstantTypes
  <2> DEFINE d == Text(n)
  <2>2. d \in Seq(Byte)
    BY <2>1, TextIsSeq
  <2> HIDE DEF d
  <2>3. DataRequest(d) \in Message
    BY <2>2, NewMessageType DEF DataRequest, REQUEST, DATA, Packet, Message
  <2> QED BY <2>3 DEF d
<1> QED BY <1>1, <1>2 DEF Requests

\* and the responses.
LEMMA ResponseTypes == Responses \subseteq Message
<1> SUFFICES ASSUME NEW m \in Requests PROVE EstablishResponse(m) \in Message
  BY DEF Requests, Responses
<1>1. m \in Message
  BY RequestTypes
<1>2. Address \in Seq(Byte) /\ Mask \in Seq(Byte) /\ Resolver \in Seq(Byte)
  BY TextIsSeq DEF Address, Mask, Resolver
<1>3. Append(m.dns, Resolver) \in Seq(Seq(Byte))
  <2>1. m.dns \in Seq(Seq(Byte))
    BY <1>1 DEF Message
  <2> QED BY <1>2, <2>1, AppendProperties
<1> QED BY <1>1, <1>2, <1>3 DEF EstablishResponse, RESPONSE, ESTABLISH, Message

\* The buffer holds the message, no more and no less.
LEMMA BodyIsSerialize ==
  ASSUME NEW m \in Message
  PROVE  Body(m) = Serialize(m)
<1> DEFINE bytes == Serialize(m)
           n == ByteSizeLong(m)
<1>1. bytes \in Seq(Byte) /\ n \in Nat /\ Len(bytes) = n
  BY SizeCountsBytes
<1>2. Body(m) = [i \in 1..n |-> IF i <= Len(bytes) THEN bytes[i] ELSE 0]
  BY DEF Body
<1> HIDE DEF bytes, n
<1>3. bytes = [i \in 1..n |-> bytes[i]]
  BY <1>1, LenProperties
<1> QED BY <1>1, <1>2, <1>3 DEF bytes

\* A header is four bytes.
LEMMA HeaderBytes ==
  ASSUME NEW n \in Nat
  PROVE  Header(n) \in Seq(Byte) /\ Len(Header(n)) = 4
<1>1. ASSUME NEW k \in Nat PROVE k % 256 \in Byte
  BY DEF Byte
<1>2. n \div 256 \in Nat /\ n \div 65536 \in Nat /\ n \div 16777216 \in Nat
  BY SMT
<1> DEFINE a == n % 256
           b == (n \div 256) % 256
           c == (n \div 65536) % 256
           d == (n \div 16777216) % 256
<1>3. a \in Byte /\ b \in Byte /\ c \in Byte /\ d \in Byte
  BY <1>1, <1>2, SMT
<1>4. Header(n) = <<a, b, c, d>>
  BY DEF Header
<1> HIDE DEF a, b, c, d
<1>5. <<a, b, c, d>> \in Seq(Byte) /\ Len(<<a, b, c, d>>) = 4
  BY <1>3
<1> QED BY <1>4, <1>5

\* A frame is bytes.
LEMMA FrameIsSeq ==
  ASSUME NEW m \in Message
  PROVE  Frame(m) \in Seq(Byte)
<1>1. Body(m) \in Seq(Byte) /\ ByteSizeLong(m) \in Nat
  BY BodyIsSerialize, SizeCountsBytes
<1>2. Header(ByteSizeLong(m)) \in Seq(Byte)
  BY <1>1, HeaderBytes
<1> QED BY <1>1, <1>2, PartsAdd DEF Frame

\* What the callbacks hand over has its type.
LEMMA InitTypes == Init => TypeOK
<1> SUFFICES ASSUME Init PROVE TypeOK
  OBVIOUS
<1>1. input \in Seq(Byte) /\ rest \in Seq(Byte)
  <2>1. CASE kind = "request" /\ sent \in Requests /\ input = Body(sent) /\ rest = <<>>
    BY <2>1, RequestTypes, BodyIsSerialize, SizeCountsBytes, EmptySeq
  <2>2. CASE kind = "response" /\ sent \in Responses /\ input = <<>> /\ rest = Frame(sent)
    BY <2>2, ResponseTypes, FrameIsSeq, EmptySeq
  <2>3. CASE /\ kind = "stray" /\ rest = <<>>
             /\ \E n \in 0..StrayLength : input \in [1..n -> Alphabet]
    <3>1. PICK n \in 0..StrayLength : input \in [1..n -> Alphabet]
      BY <2>3
    <3>2. n \in Nat /\ input \in [1..n -> Byte]
      BY <3>1, ConstantTypes
    <3>3. input \in Seq(Byte)
      BY <3>2, SeqOfFunction
    <3> QED BY <2>3, <3>3, EmptySeq
  <2> QED BY <2>1, <2>2, <2>3 DEF Init
<1>2. Len(input) \in Nat
  BY <1>1, LenProperties
<1>3. /\ kind \in {"request", "response", "stray"} /\ pos = 1 /\ limit = Len(input)
      /\ inside = FALSE /\ msg = NewMessage
      /\ result = IF kind = "response" THEN "waiting" ELSE "parsing"
  BY DEF Init
<1>4. result \in {"waiting", "parsing"}
  BY <1>3
<1>5. limit \in 0..Len(input) /\ pos \in 1..(limit + 1) /\ inside \in BOOLEAN
  <2>1. pos = 1 /\ limit = Len(input) /\ inside = FALSE
    BY <1>3
  <2>2. limit \in 0..Len(input) /\ pos \in 1..(limit + 1)
    BY <1>2, <2>1
  <2> QED BY <2>1, <2>2
<1> QED BY <1>1, <1>3, <1>4, <1>5, NewMessageType DEF TypeOK

-----------------------------------------------------------------------------
\* Each step keeps the types.
LEMMA TextType ==
  ASSUME NEW m \in Message, NEW f \in DOMAIN TextTag, NEW s \in Seq(Byte)
  PROVE  [m EXCEPT ![f] = s] \in Message /\ m[f] \in Seq(Byte)
<1>1. f \in {"username", "password", "ip", "submask", "gateway"}
  BY DEF TextTag
<1>2. CASE f = "username" BY <1>2 DEF Message
<1>3. CASE f = "password" BY <1>3 DEF Message
<1>4. CASE f = "ip" BY <1>4 DEF Message
<1>5. CASE f = "submask" BY <1>5 DEF Message
<1>6. CASE f = "gateway" BY <1>6 DEF Message
<1> QED BY <1>1, <1>2, <1>3, <1>4, <1>5, <1>6

\* Any number is an enum.
LEMMA EnumType ==
  ASSUME NEW m \in Message, NEW f \in DOMAIN EnumTag, NEW v \in Nat
  PROVE  [m EXCEPT ![f] = v] \in Message /\ m[f] \in Nat
<1>1. f \in {"type", "messagecode", "passwordencrypttype", "linkencrypttype"}
  BY DEF EnumTag
<1>2. CASE f = "type" BY <1>2 DEF Message
<1>3. CASE f = "messagecode" BY <1>3 DEF Message
<1>4. CASE f = "passwordencrypttype" BY <1>4 DEF Message
<1>5. CASE f = "linkencrypttype" BY <1>5 DEF Message
<1> QED BY <1>1, <1>2, <1>3, <1>4, <1>5

\* What the types say of the place and the limit.
LEMMA TypesLimit ==
  ASSUME TypeOK
  PROVE  /\ Limited /\ pos \in 1..(limit + 1) /\ limit \in Nat /\ pos \in Nat \ {0}
         /\ AfterTag \in Nat \ {0} /\ AfterTag >= pos
<1>1. Limited /\ pos \in 1..(limit + 1)
  BY DEF TypeOK, Limited
<1>2. limit \in Nat /\ pos \in Nat \ {0}
  BY <1>1, LimitedFacts
<1>3. AfterTag \in pos..(limit + 1)
  BY <1>1, TagWithin
<1> QED BY <1>1, <1>2, <1>3

\* The varint behind a tag.
LEMMA VarintType ==
  ASSUME TypeOK
  PROVE  LET l == VarintAt(AfterTag)
         IN  l.ok \in BOOLEAN /\ (l.ok => l.value \in Nat /\ l.next \in 1..(limit + 1))
<1> DEFINE a == AfterTag
           l == VarintAt(a)
<1>1. Limited /\ a \in Nat \ {0} /\ limit \in Nat
  BY TypesLimit
<1> HIDE DEF a
<1>2. \/ l.ok = TRUE /\ l.value \in Nat /\ l.next \in (a + 1)..(limit + 1)
      \/ l.ok = FALSE
  BY <1>1, VarintWithin
<1>3. l.next \in (a + 1)..(limit + 1) => l.next \in 1..(limit + 1)
  BY <1>1
<1> QED BY <1>2, <1>3 DEF a

\* Going on, or failing, keeps the place within the limit.
LEMMA AdvanceTypes ==
  ASSUME TypeOK, NEW read, read.ok => read.next \in 1..(limit + 1), Advance(read), Parsing
  PROVE  pos' \in 1..(limit + 1) /\ result' \in {"parsing", "failed"}
<1>1. CASE read.ok
  BY <1>1 DEF Advance, Parsing
<1>2. CASE ~read.ok
  BY <1>2 DEF Advance, TypeOK
<1> QED BY <1>1, <1>2

\* Each step keeps the types: a text,
LEMMA TextTypes ==
  ASSUME TypeOK, ReadText
  PROVE  TypeOK'
<1> DEFINE read == BytesAt(AfterTag)
           checked == [read EXCEPT !.ok = @ /\ Utf8(read.value)]
<1>1. PICK f \in DOMAIN TextTag :
        /\ msg' = [msg EXCEPT ![f] = IF LengthAt(AfterTag).ok THEN read.value ELSE @]
        /\ Advance(checked)
  BY DEF ReadText
<1>2. read.value \in Seq(Byte) /\ (read.ok => read.next \in 1..(limit + 1))
  BY TypesLimit, BytesWithin
<1>3. checked.ok => checked.next \in 1..(limit + 1)
  <2>1. read = [ok |-> read.ok, value |-> read.value, next |-> read.next]
    BY DEF BytesAt
  <2> HIDE DEF read
  <2>2. DOMAIN read = {"ok", "value", "next"}
    BY <2>1
  <2>3. checked.ok = (read.ok /\ Utf8(read.value)) /\ checked.next = read.next
    BY <2>2
  <2> QED BY <1>2, <2>3
<1> HIDE DEF read, checked
<1>4. pos' \in 1..(limit + 1) /\ result' \in {"parsing", "failed"}
  BY <1>1, <1>3, AdvanceTypes DEF ReadText
<1>5. msg' \in Message
  <2>1. msg \in Message
    BY DEF TypeOK
  <2> DEFINE s == IF LengthAt(AfterTag).ok THEN read.value ELSE msg[f]
  <2>2. msg[f] \in Seq(Byte)
    BY <1>2, <2>1, TextType
  <2>3. s \in Seq(Byte) /\ msg' = [msg EXCEPT ![f] = s]
    BY <1>1, <1>2, <2>2
  <2> HIDE DEF s
  <2> QED BY <2>1, <2>3, TextType
<1> QED BY <1>4, <1>5 DEF ReadText, TypeOK

\* a resolver,
LEMMA DnsTypes ==
  ASSUME TypeOK, ReadDns
  PROVE  TypeOK'
<1> DEFINE read == BytesAt(AfterTag)
           checked == [read EXCEPT !.ok = @ /\ Utf8(read.value)]
<1>1. msg' = [msg EXCEPT !.dns = Append(@, read.value)] /\ Advance(checked)
  BY DEF ReadDns
<1>2. read.value \in Seq(Byte) /\ (read.ok => read.next \in 1..(limit + 1))
  BY TypesLimit, BytesWithin
<1>3. checked.ok => checked.next \in 1..(limit + 1)
  <2>1. read = [ok |-> read.ok, value |-> read.value, next |-> read.next]
    BY DEF BytesAt
  <2> HIDE DEF read
  <2>2. DOMAIN read = {"ok", "value", "next"}
    BY <2>1
  <2>3. checked.ok = (read.ok /\ Utf8(read.value)) /\ checked.next = read.next
    BY <2>2
  <2> QED BY <1>2, <2>3
<1> HIDE DEF read, checked
<1>4. pos' \in 1..(limit + 1) /\ result' \in {"parsing", "failed"}
  BY <1>1, <1>3, AdvanceTypes DEF ReadDns
<1>5. msg' \in Message
  <2>1. msg \in Message /\ msg.dns \in Seq(Seq(Byte))
    BY DEF TypeOK, Message
  <2>2. Append(msg.dns, read.value) \in Seq(Seq(Byte))
    BY <1>2, <2>1, AppendProperties
  <2> QED BY <1>1, <2>1, <2>2 DEF Message
<1> QED BY <1>4, <1>5 DEF ReadDns, TypeOK

\* an enum,
LEMMA EnumTypes ==
  ASSUME TypeOK, ReadEnum
  PROVE  TypeOK'
<1> DEFINE read == VarintAt(AfterTag)
<1>1. PICK f \in DOMAIN EnumTag :
        msg' = [msg EXCEPT ![f] = IF read.ok THEN read.value ELSE @] /\ Advance(read)
  BY DEF ReadEnum
<1>2. read.ok => read.value \in Nat /\ read.next \in 1..(limit + 1)
  BY VarintType
<1> HIDE DEF read
<1>3. pos' \in 1..(limit + 1) /\ result' \in {"parsing", "failed"}
  BY <1>1, <1>2, AdvanceTypes DEF ReadEnum
<1>4. msg' \in Message
  <2>1. msg \in Message
    BY DEF TypeOK
  <2> DEFINE v == IF read.ok THEN read.value ELSE msg[f]
  <2>2. msg[f] \in Nat
    BY <2>1, EnumType
  <2>3. v \in Nat /\ msg' = [msg EXCEPT ![f] = v]
    BY <1>1, <1>2, <2>2
  <2> HIDE DEF v
  <2> QED BY <2>1, <2>3, EnumType
<1> QED BY <1>3, <1>4 DEF ReadEnum, TypeOK

\* the packet, whose limit lies within that of the message,
LEMMA EnterTypes ==
  ASSUME TypeOK, EnterPacket
  PROVE  TypeOK'
<1> DEFINE l == VarintAt(AfterTag)
           e == l.next + l.value - 1
<1>1. /\ msg' = [msg EXCEPT !.packet.present = TRUE] /\ inside' = l.ok
      /\ limit' = (IF l.ok THEN Min({limit, e}) ELSE limit)
      /\ Advance(l)
  BY DEF EnterPacket
<1>2. l.ok \in BOOLEAN /\ (l.ok => l.value \in Nat /\ l.next \in 1..(limit + 1))
  BY VarintType
<1> HIDE DEF l
<1>3. msg' \in Message
  BY <1>1 DEF TypeOK, Message
<1>4. limit' \in 0..limit /\ pos' \in 1..(limit' + 1) /\ result' \in {"parsing", "failed"}
  <2>1. CASE l.ok
    <3>1. pos' = l.next /\ result' = "parsing" /\ limit' = Min({limit, e})
      BY <1>1, <2>1 DEF Advance, EnterPacket, Parsing
    <3>2. e \in Int /\ limit \in Int /\ e >= l.next - 1 /\ l.next \in 1..(limit + 1)
      BY <1>2, <2>1, TypesLimit
    <3> HIDE DEF e
    <3>3. Min({limit, e}) = IF limit <= e THEN limit ELSE e
      BY <3>2, MinOfTwo
    <3> QED BY <3>1, <3>2, <3>3
  <2>2. CASE ~l.ok
    BY <1>1, <2>2, TypesLimit DEF Advance
  <2> QED BY <2>1, <2>2
<1>5. limit \in Nat /\ Len(input) \in Nat /\ limit <= Len(input)
  BY TypesLimit, LimitedFacts
<1> QED BY <1>1, <1>2, <1>3, <1>4, <1>5 DEF EnterPacket, TypeOK

\* its data,
LEMMA PacketDataTypes ==
  ASSUME TypeOK, ReadPacketData
  PROVE  TypeOK'
<1> DEFINE read == BytesAt(AfterTag)
<1>1. /\ msg' = [msg EXCEPT !.packet.packetdata = IF LengthAt(AfterTag).ok THEN read.value ELSE @]
      /\ Advance(read)
  BY DEF ReadPacketData
<1>2. read.value \in Seq(Byte) /\ (read.ok => read.next \in 1..(limit + 1))
  BY TypesLimit, BytesWithin
<1> HIDE DEF read
<1>3. pos' \in 1..(limit + 1) /\ result' \in {"parsing", "failed"}
  BY <1>1, <1>2, AdvanceTypes DEF ReadPacketData
<1>4. msg' \in Message
  <2>1. CASE LengthAt(AfterTag).ok
    BY <1>1, <1>2, <2>1 DEF Message, TypeOK
  <2>2. CASE ~LengthAt(AfterTag).ok
    BY <1>1, <2>2 DEF Message, TypeOK
  <2> QED BY <2>1, <2>2
<1> QED BY <1>3, <1>4 DEF ReadPacketData, TypeOK

\* the ends,
LEMMA EndTypes ==
  ASSUME TypeOK, EndPacket \/ EndMessage
  PROVE  TypeOK'
<1>1. Len(input) \in Nat /\ limit <= Len(input) /\ limit \in Nat /\ pos \in Nat \ {0}
  BY TypesLimit, LimitedFacts
<1>2. CASE EndPacket
  <2>1. CASE pos > limit
    <3>1. inside' = FALSE /\ limit' = Len(input) /\ pos' = pos /\ input' = input
      BY <1>2, <2>1 DEF EndPacket
    <3>2. limit' \in 0..Len(input') /\ pos' \in 1..(limit' + 1)
      <4>1. pos \in 1..(limit + 1)
        BY DEF TypeOK
      <4> QED BY <1>1, <3>1, <4>1
    <3> QED BY <1>2, <2>1, <3>1, <3>2 DEF EndPacket, TypeOK
  <2>2. CASE ~(pos > limit)
    BY <1>2, <2>2 DEF EndPacket, TypeOK
  <2> QED BY <2>1, <2>2
<1>3. CASE EndMessage
  BY <1>3 DEF EndMessage, TypeOK
<1> QED BY <1>2, <1>3

\* an unknown field,
LEMMA UnusualTypes ==
  ASSUME TypeOK, Unusual
  PROVE  TypeOK'
<1>1. PICK p \in SkipEnds : Advance([ok |-> p # 0, next |-> p])
  BY DEF Unusual
<1>2. p = 0 \/ p \in (pos + 1)..(limit + 1)
  BY TypesLimit, SkipWithin DEF Unusual
<1> DEFINE read == [ok |-> p # 0, next |-> p]
<1>3. read.ok => read.next \in 1..(limit + 1)
  <2>1. p # 0 => p \in 1..(limit + 1)
    BY <1>2, TypesLimit
  <2>2. read.ok = (p # 0) /\ read.next = p
    OBVIOUS
  <2> HIDE DEF read
  <2> QED BY <2>1, <2>2
<1> HIDE DEF read
<1>4. pos' \in 1..(limit + 1) /\ result' \in {"parsing", "failed"}
  BY <1>1, <1>3, AdvanceTypes DEF Unusual, read
<1> QED BY <1>4 DEF Unusual, TypeOK

\* the length the client finds, whole or not,
LEMMA LengthInType ==
  ASSUME NEW header \in Seq(Byte)
  PROVE  LengthIn(header) \in 0..MaxBody /\ LengthIn(header) \in Nat
<1> DEFINE byte(i) == IF i <= Len(header) THEN header[i] ELSE 0
           n == byte(1) + 256 * byte(2) + 65536 * byte(3)
<1>1. MaxBody \in Nat
  BY ConstantTypes
<1>2. ASSUME NEW i \in 1..4 PROVE byte(i) \in Nat
  <2>1. CASE i <= Len(header)
    <3>1. i \in 1..Len(header)
      BY <2>1, LenProperties
    <3>2. header[i] \in Byte
      BY <3>1, ElementOfSeq
    <3>3. byte(i) = header[i]
      BY <2>1
    <3> HIDE DEF byte
    <3>4. byte(i) \in Byte /\ Byte \subseteq Nat
      BY <3>2, <3>3 DEF Byte
    <3> QED BY <3>4
  <2>2. CASE ~(i <= Len(header))
    BY <2>2
  <2> QED BY <2>1, <2>2
<1> HIDE DEF byte
<1>3. n \in Nat
  BY <1>2, SMT
<1>4. LengthIn(header) = IF byte(4) # 0 THEN MaxBody ELSE Min({MaxBody, n})
  BY SMT DEF LengthIn, byte
<1> HIDE DEF n
<1>5. Min({MaxBody, n}) = IF MaxBody <= n THEN MaxBody ELSE n
  BY <1>1, <1>3, MinOfTwo
<1> QED BY <1>1, <1>3, <1>4, <1>5

\* What the client's callback takes of the rest: a header of four bytes, if
\* there are so many, and bytes behind it.
LEMMA ClientTaken ==
  ASSUME TypeOK, ClientReads
  PROVE  \E n \in 1..Len(rest), h \in 1..4, size \in Nat, got \in Nat :
           /\ h = IF 4 <= n THEN 4 ELSE n
           /\ got <= n - h /\ got <= size
           /\ input' = [i \in 1..size |-> IF i <= got THEN rest[h + i] ELSE 0]
           /\ rest' = SubSeq(rest, h + got + 1, Len(rest))
<1>1. PICK n \in 1..Len(rest) :
       LET header == SubSeq(rest, 1, Min({4, n}))
           size == LengthIn(header)
           got == Min({size, n - Len(header)})
       IN  /\ input' = [i \in 1..size |-> IF i <= got THEN rest[Len(header) + i] ELSE 0]
           /\ rest' = SubSeq(rest, Len(header) + got + 1, Len(rest))
  BY DEF ClientReads
<1> DEFINE h == Min({4, n})
           header == SubSeq(rest, 1, h)
           size == LengthIn(header)
           got == Min({size, n - Len(header)})
<1>2. rest \in Seq(Byte) /\ Len(rest) \in Nat
  BY LenProperties DEF TypeOK
<1>3. \A i \in 1..Len(rest) : rest[i] \in Byte
  BY <1>2, ElementOfSeq
<1>4. h \in 1..n /\ n \in 1..Len(rest) /\ h = (IF 4 <= n THEN 4 ELSE n) /\ h \in 1..4
  <2>1. n \in Int /\ n >= 1
    BY <1>2
  <2>2. h = IF 4 <= n THEN 4 ELSE n
    BY <2>1, MinOfTwo
  <2> HIDE DEF h
  <2> QED BY <2>1, <2>2
<1> HIDE DEF h
<1>5. header \in Seq(Byte) /\ Len(header) = h
  <2>1. ASSUME NEW i \in 1..h PROVE rest[i] \in Byte
    BY <1>2, <1>3, <1>4
  <2>2. 1 \in Int /\ h \in Int /\ 1 <= h
    BY <1>4
  <2> QED BY <2>1, <2>2, SubSeqProperties
<1>6. size \in Nat
  BY <1>5, LengthInType
<1> HIDE DEF header, size
<1>7. got \in Nat /\ got <= n - h /\ got <= size
  <2> DEFINE d == n - Len(header)
  <2>1. d \in Nat /\ d = n - h
    BY <1>2, <1>4, <1>5
  <2> HIDE DEF d
  <2>2. Min({size, d}) = IF size <= d THEN size ELSE d
    BY <1>6, <2>1, MinOfTwo
  <2> QED BY <1>6, <2>1, <2>2 DEF d
<1>8. /\ input' = [i \in 1..size |-> IF i <= got THEN rest[h + i] ELSE 0]
      /\ rest' = SubSeq(rest, h + got + 1, Len(rest))
  BY <1>1, <1>5 DEF header, size, h
<1> HIDE DEF got
<1> QED BY <1>4, <1>6, <1>7, <1>8

\* and the body it makes of it.
LEMMA ClientTypes ==
  ASSUME TypeOK, ClientReads
  PROVE  TypeOK'
<1>1. PICK n \in 1..Len(rest), h \in 1..4, size \in Nat, got \in Nat :
        /\ h = IF 4 <= n THEN 4 ELSE n
        /\ got <= n - h /\ got <= size
        /\ input' = [i \in 1..size |-> IF i <= got THEN rest[h + i] ELSE 0]
        /\ rest' = SubSeq(rest, h + got + 1, Len(rest))
  BY ClientTaken
<1>2. rest \in Seq(Byte) /\ Len(rest) \in Nat
  BY LenProperties DEF TypeOK
<1>3. \A i \in 1..Len(rest) : rest[i] \in Byte
  BY <1>2, ElementOfSeq
<1>4. input' \in Seq(Byte) /\ Len(input') = size
  <2>1. ASSUME NEW i \in 1..size PROVE (IF i <= got THEN rest[h + i] ELSE 0) \in Byte
    <3>1. i <= got => h + i \in 1..Len(rest)
      BY <1>1, <1>2
    <3>2. 0 \in Byte
      BY DEF Byte
    <3> QED BY <1>3, <3>1, <3>2
  <2>2. input' \in [1..size -> Byte]
    BY <1>1, <2>1
  <2> QED BY <1>1, <2>2, SeqOfFunction
<1>5. rest' \in Seq(Byte)
  <2> DEFINE a == h + got + 1
  <2>1. a \in Int /\ Len(rest) \in Int /\ a >= 1
    BY <1>1, <1>2
  <2>2. \A i \in a..Len(rest) : rest[i] \in Byte
    BY <1>2, <1>3, <2>1
  <2> HIDE DEF a
  <2>3. SubSeq(rest, a, Len(rest)) \in Seq(Byte)
    BY <2>1, <2>2, SubSeqProperties
  <2> QED BY <1>1, <2>3 DEF a
<1>6. /\ kind' = kind /\ pos' = 1 /\ limit' = Len(input') /\ inside' = FALSE
       /\ msg' = NewMessage /\ result' = "parsing"
  BY DEF ClientReads
<1>7. Len(input') \in Nat
  BY <1>1, <1>4
<1>8. limit' \in 0..Len(input') /\ pos' \in 1..(limit' + 1)
  BY <1>6, <1>7
<1>9. kind' \in {"request", "response", "stray"}
  BY <1>6 DEF TypeOK
<1> QED BY <1>4, <1>5, <1>6, <1>8, <1>9, NewMessageType DEF TypeOK

\* All of them.
LEMMA NextTypes == TypeOK /\ [Next]_vars => TypeOK'
<1> SUFFICES ASSUME TypeOK, [Next]_vars PROVE TypeOK'
  OBVIOUS
<1>1. CASE UNCHANGED vars
  BY <1>1 DEF vars, TypeOK
<1>2. CASE Next
  BY <1>2, TextTypes, DnsTypes, EnumTypes, EnterTypes, PacketDataTypes, EndTypes,
     UnusualTypes, ClientTypes DEF Next, Parse
<1> QED BY <1>1, <1>2

(***************************************************************************)
(* Whatever the body holds, the parser reads within it: pos stays within   *)
(* the limit and the limit within the body, and what it builds is a        *)
(* message (TypeOK).                                                       *)
(***************************************************************************)
THEOREM ParserTypeCorrect == Spec => []TypeOK
BY InitTypes, NextTypes, PTL DEF Spec

-----------------------------------------------------------------------------
\* The parser gets on.
\* What every step of the parser leaves alone.
LEMMA ParseKeeps ==
  ASSUME Parse
  PROVE  kind' = kind /\ sent' = sent /\ rest' = rest /\ input' = input
BY DEF Parse, ReadText, ReadDns, ReadEnum, EnterPacket, ReadPacketData, EndPacket, EndMessage, Unusual

\* No tag is 0, and each names its field.
LEMMA TagValues ==
  /\ \A f \in DOMAIN TextTag : TextTag[f] \in {10, 18, 34, 42, 50}
  /\ \A f, g \in DOMAIN TextTag : TextTag[f] = TextTag[g] => f = g
  /\ \A f \in DOMAIN EnumTag : EnumTag[f] \in {64, 72, 80, 88}
  /\ \A f, g \in DOMAIN EnumTag : EnumTag[f] = EnumTag[g] => f = g
BY DEF TextTag, EnumTag

\* What the parser has left of the body.
Left == 2 * (Len(input) + 1 - pos) + (IF inside THEN 1 ELSE 0)

\* Going on leads past what was read.
LEMMA AdvanceOn ==
  ASSUME Parsing, NEW read, NEW k \in Nat, read.ok => read.next \in k..(limit + 1), Advance(read)
  PROVE  result' = "failed" \/ pos' \in k..(limit + 1)
<1>1. CASE read.ok
  BY <1>1 DEF Advance
<1>2. CASE ~read.ok
  BY <1>2 DEF Advance
<1> QED BY <1>1, <1>2

\* A step that is not the last goes on, past a tag and a length if it enters
\* the packet, or leaves the packet.
LEMMA EachAdvances ==
  ASSUME TypeOK, Parse, result' = "parsing"
  PROVE  \/ inside' = inside /\ pos' > pos
         \/ inside' \in BOOLEAN /\ pos' > pos + 1
         \/ inside = TRUE /\ inside' = FALSE /\ pos' = pos
<1> DEFINE a == AfterTag
<1>1. /\ Limited /\ a \in Nat \ {0} /\ limit \in Nat /\ pos \in Nat \ {0} /\ pos \in 1..(limit + 1)
      /\ Tag # 0 => a > pos
      /\ a >= pos
  BY TypesLimit, TagWithin
<1>2. ASSUME Tag # 0 PROVE a > pos
  BY <1>1, <1>2
<1> HIDE DEF a
<1>3. \A k \in (a + 1)..(limit + 1) : k > a
  BY <1>1
<1>4. CASE ReadText \/ ReadDns
  <2> DEFINE read == BytesAt(a)
             checked == [read EXCEPT !.ok = @ /\ Utf8(read.value)]
  <2>1. Advance(checked) /\ inside' = inside /\ Tag # 0 /\ Parsing
    <3>1. \A f \in DOMAIN TextTag : TextTag[f] # 0
      BY TagValues
    <3>2. CASE ReadText
      BY <3>1, <3>2 DEF ReadText, a
    <3>3. CASE ReadDns
      BY <3>3, Tags DEF ReadDns, a
    <3> QED BY <1>4, <3>2, <3>3
  <2>2. read.ok => read.next \in (a + 1)..(limit + 1)
    BY <1>1, BytesWithin
  <2>3. checked.ok => checked.next \in (a + 1)..(limit + 1)
    <3>1. read = [ok |-> read.ok, value |-> read.value, next |-> read.next]
      BY DEF BytesAt
    <3> HIDE DEF read
    <3>2. DOMAIN read = {"ok", "value", "next"}
      BY <3>1
    <3>3. checked.ok = (read.ok /\ Utf8(read.value)) /\ checked.next = read.next
      BY <3>2
    <3> QED BY <2>2, <3>3
  <2> HIDE DEF read, checked
  <2>4. pos' \in (a + 1)..(limit + 1)
    <3>1. a + 1 \in Nat
      BY <1>1
    <3> QED BY <2>1, <2>3, <3>1, AdvanceOn
  <2> QED BY <1>1, <1>2, <2>1, <2>4
<1>5. CASE ReadEnum
  <2> DEFINE read == VarintAt(a)
  <2>1. Advance(read) /\ inside' = inside /\ Tag # 0 /\ Parsing
    <3>1. \A f \in DOMAIN EnumTag : EnumTag[f] # 0
      BY TagValues
    <3> QED BY <1>5, <3>1 DEF ReadEnum, a
  <2>2. read.ok => read.next \in (a + 1)..(limit + 1)
    BY <1>1, VarintWithin
  <2> HIDE DEF read
  <2>3. pos' \in (a + 1)..(limit + 1)
    <3>1. a + 1 \in Nat
      BY <1>1
    <3> QED BY <2>1, <2>2, <3>1, AdvanceOn
  <2> QED BY <1>1, <1>2, <2>1, <2>3
<1>6. CASE EnterPacket
  <2> DEFINE read == VarintAt(a)
  <2>1. Advance(read) /\ inside' = read.ok /\ Tag # 0 /\ Parsing
    BY <1>6, Tags DEF EnterPacket, a
  <2>2. read.ok \in BOOLEAN /\ (read.ok => read.next \in (a + 1)..(limit + 1))
    BY <1>1, VarintWithin
  <2> HIDE DEF read
  <2>3. pos' \in (a + 1)..(limit + 1)
    <3>1. a + 1 \in Nat
      BY <1>1
    <3> QED BY <2>1, <2>2, <3>1, AdvanceOn
  <2> QED BY <1>1, <1>2, <2>1, <2>2, <2>3
<1>7. CASE ReadPacketData
  <2> DEFINE read == BytesAt(a)
  <2>1. Advance(read) /\ inside' = inside /\ Tag # 0 /\ Parsing
    BY <1>7, Tags DEF ReadPacketData, a
  <2>2. read.ok => read.next \in (a + 1)..(limit + 1)
    BY <1>1, BytesWithin
  <2> HIDE DEF read
  <2>3. pos' \in (a + 1)..(limit + 1)
    <3>1. a + 1 \in Nat
      BY <1>1
    <3> QED BY <2>1, <2>2, <3>1, AdvanceOn
  <2> QED BY <1>1, <1>2, <2>1, <2>3
<1>8. CASE EndPacket
  <2>1. inside = TRUE /\ inside' = FALSE /\ pos' = pos
    BY <1>8 DEF EndPacket, TypeOK
  <2> QED BY <2>1
<1>9. CASE EndMessage
  BY <1>9 DEF EndMessage
<1>10. CASE Unusual
  <2>1. PICK p \in SkipEnds : Advance([ok |-> p # 0, next |-> p])
    BY <1>10 DEF Unusual
  <2>2. p = 0 \/ p \in (pos + 1)..(limit + 1)
    BY <1>1, <1>10, SkipWithin DEF Unusual
  <2> DEFINE read == [ok |-> p # 0, next |-> p]
  <2>3. read.ok => read.next \in (pos + 1)..(limit + 1)
    <3>1. read.ok = (p # 0) /\ read.next = p
      OBVIOUS
    <3> HIDE DEF read
    <3> QED BY <2>2, <3>1
  <2> HIDE DEF read
  <2>4. pos' \in (pos + 1)..(limit + 1)
    <3>1. pos + 1 \in Nat /\ Parsing
      BY <1>1, <1>10 DEF Unusual
    <3> QED BY <2>1, <2>3, <3>1, AdvanceOn DEF read
  <2> QED BY <1>1, <1>10, <2>4 DEF Unusual
<1> QED BY <1>4, <1>5, <1>6, <1>7, <1>8, <1>9, <1>10 DEF Parse

\* So there is less left: a byte counts two, being inside a packet one.
LEMMA LessLeft ==
  ASSUME NEW n \in Nat, NEW p \in Nat, NEW q \in Nat, NEW b \in 0..1, NEW c \in 0..1,
         (b = c /\ q > p) \/ q > p + 1 \/ (b = 1 /\ c = 0 /\ q = p)
  PROVE  2 * (n + 1 - q) + c < 2 * (n + 1 - p) + b
OBVIOUS

(***************************************************************************)
(* Every step of the parse but its last leaves it less to read, and what   *)
(* is left is a number: the reason for Stops, whatever the body holds and  *)
(* wherever SkipField ends up in it.                                       *)
(***************************************************************************)
THEOREM ParserAdvances ==
  Spec => [](Left \in Nat) /\ [][Parse => result' # "parsing" \/ Left' < Left]_vars
<1>1. TypeOK => Left \in Nat
  <2> SUFFICES ASSUME TypeOK PROVE Left \in Nat
    OBVIOUS
  <2>1. Len(input) + 1 - pos \in Nat
    BY TypesLimit, LimitedFacts
  <2> QED BY <2>1 DEF Left
<1>2. TypeOK /\ TypeOK' /\ [Next]_vars => [Parse => result' # "parsing" \/ Left' < Left]_vars
  <2> SUFFICES ASSUME TypeOK, TypeOK', Parse, result' = "parsing"
               PROVE  Left' < Left
    OBVIOUS
  <2>1. input' = input /\ Len(input) \in Nat /\ pos \in Nat /\ inside \in BOOLEAN
    BY ParseKeeps, TypesLimit, LimitedFacts DEF TypeOK
  <2>2. pos' \in Nat /\ inside' \in BOOLEAN
    BY <2>1 DEF TypeOK
  <2>3. \/ inside' = inside /\ pos' > pos
        \/ pos' > pos + 1
        \/ inside = TRUE /\ inside' = FALSE /\ pos' = pos
    BY EachAdvances
  <2> DEFINE L == Len(input)
             b == IF inside THEN 1 ELSE 0
             c == IF inside' THEN 1 ELSE 0
  <2>4. Left = 2 * (L + 1 - pos) + b /\ Left' = 2 * (L + 1 - pos') + c
    BY <2>1 DEF Left
  <2>5. /\ b \in 0..1 /\ c \in 0..1
        /\ (inside' = inside => b = c) /\ (inside = TRUE /\ inside' = FALSE => b = 1 /\ c = 0)
    BY <2>1, <2>2
  <2>6. L \in Nat
    BY <2>1
  <2> HIDE DEF L, b, c
  <2>7. (b = c /\ pos' > pos) \/ pos' > pos + 1 \/ (b = 1 /\ c = 0 /\ pos' = pos)
    BY <2>3, <2>5
  <2>8. b \in 0..1 /\ c \in 0..1 /\ pos \in Nat /\ pos' \in Nat
    BY <2>1, <2>2, <2>5
  <2> QED BY <2>4, <2>6, <2>7, <2>8, LessLeft
<1> QED BY <1>1, <1>2, ParserTypeCorrect, PTL DEF Spec

-----------------------------------------------------------------------------
\* The stages InRequest lists, by name.
AfterUsername == 1 + Len(Field(10, sent.username))
AfterPassword == AfterUsername + Len(Field(18, sent.password))
AfterCode == AfterPassword + 2
AfterLength == AfterCode + 1 + VarintSize(PacketSize(sent.packet))

WithUsername == [NewMessage EXCEPT !.username = sent.username]
WithPassword == [WithUsername EXCEPT !.password = sent.password]
WithCode == [WithPassword EXCEPT !.messagecode = sent.messagecode]
WithPacket == [WithCode EXCEPT !.packet = Packet(<<>>)]

Whole == sent \in Requests /\ input = Serialize(sent) /\ rest = <<>> /\ limit = Len(input)

At(p, m) == result = "parsing" /\ ~inside /\ pos = p /\ msg = m
InPacket(p, m) == result = "parsing" /\ inside /\ pos = p /\ msg = m

Staged ==
  /\ Whole
  /\ \/ At(1, NewMessage)
     \/ At(AfterUsername, WithUsername)
     \/ At(AfterPassword, WithPassword)
     \/ At(AfterCode, WithCode)
     \/ has_packet(sent) /\ InPacket(AfterLength, WithPacket)
     \/ InPacket(Len(input) + 1, sent)
     \/ At(Len(input) + 1, sent)
     \/ result = "ok" /\ msg = sent

\* The stages are those of InRequest.
LEMMA Stages == InRequest <=> Staged
BY Tags DEF Staged, InRequest, Whole, At, InPacket, AfterUsername, AfterPassword, AfterCode, AfterLength,
   WithUsername, WithPassword, WithCode, WithPacket

\* What requests have in common.
LEMMA WithCodeIs ==
  /\ WithUsername =
       [username |-> sent.username, password |-> <<>>, ip |-> <<>>, submask |-> <<>>,
        gateway |-> <<>>, dns |-> <<>>, type |-> 0, messagecode |-> 0,
        passwordencrypttype |-> 0, linkencrypttype |-> 0, packet |-> NoPacket]
  /\ WithPassword =
       [username |-> sent.username, password |-> sent.password, ip |-> <<>>, submask |-> <<>>,
        gateway |-> <<>>, dns |-> <<>>, type |-> 0, messagecode |-> 0,
        passwordencrypttype |-> 0, linkencrypttype |-> 0, packet |-> NoPacket]
  /\ WithCode =
       [username |-> sent.username, password |-> sent.password, ip |-> <<>>, submask |-> <<>>,
        gateway |-> <<>>, dns |-> <<>>, type |-> 0, messagecode |-> sent.messagecode,
        passwordencrypttype |-> 0, linkencrypttype |-> 0, packet |-> NoPacket]
<1>1. WithUsername =
        [username |-> sent.username, password |-> <<>>, ip |-> <<>>, submask |-> <<>>,
         gateway |-> <<>>, dns |-> <<>>, type |-> 0, messagecode |-> 0,
         passwordencrypttype |-> 0, linkencrypttype |-> 0, packet |-> NoPacket]
  BY DEF WithUsername, NewMessage
<1>2. WithPassword =
        [username |-> sent.username, password |-> sent.password, ip |-> <<>>, submask |-> <<>>,
         gateway |-> <<>>, dns |-> <<>>, type |-> 0, messagecode |-> 0,
         passwordencrypttype |-> 0, linkencrypttype |-> 0, packet |-> NoPacket]
  BY <1>1 DEF WithPassword
<1>3. WithCode =
        [username |-> sent.username, password |-> sent.password, ip |-> <<>>, submask |-> <<>>,
         gateway |-> <<>>, dns |-> <<>>, type |-> 0, messagecode |-> sent.messagecode,
         passwordencrypttype |-> 0, linkencrypttype |-> 0, packet |-> NoPacket]
  BY <1>2 DEF WithCode
<1> QED BY <1>1, <1>2, <1>3

\* A packet is entered, and its data read, in place.
LEMMA PacketWith ==
  ASSUME NEW a, NEW b, NEW c
  PROVE  /\ [[present |-> a, packetdata |-> b] EXCEPT !.present = c] = [present |-> c, packetdata |-> b]
         /\ [[present |-> a, packetdata |-> b] EXCEPT !.packetdata = c] = [present |-> a, packetdata |-> c]
OBVIOUS

\* The message with its packet, before and after the data.
LEMMA WithPacketIs ==
  /\ [WithCode EXCEPT !.packet.present = TRUE] = WithPacket
  /\ \A d : [WithPacket EXCEPT !.packet.packetdata = d] = [WithCode EXCEPT !.packet = Packet(d)]
<1>1. WithCode.packet = NoPacket
  BY WithCodeIs
<1>2. [WithCode.packet EXCEPT !.present = TRUE] = Packet(<<>>)
  <2>1. ASSUME NEW c PROVE [NoPacket EXCEPT !.present = c] = [present |-> c, packetdata |-> <<>>]
    BY PacketWith DEF NoPacket
  <2>2. [NoPacket EXCEPT !.present = TRUE] = [present |-> TRUE, packetdata |-> <<>>]
    BY <2>1, Zenon
  <2> QED BY <1>1, <2>2 DEF Packet
<1>3. "packet" \in DOMAIN WithCode
  BY WithCodeIs
<1>4. [WithCode EXCEPT !.packet.present = TRUE] = WithPacket
  <2>1. [WithCode EXCEPT !.packet.present = TRUE]
          = [WithCode EXCEPT !.packet = [WithCode.packet EXCEPT !.present = TRUE]]
    BY <1>3
  <2> QED BY <1>2, <2>1 DEF WithPacket
<1>5. ASSUME NEW d PROVE [WithPacket EXCEPT !.packet.packetdata = d] = [WithCode EXCEPT !.packet = Packet(d)]
  <2>1. WithPacket.packet = Packet(<<>>) /\ DOMAIN WithPacket = DOMAIN WithCode
    BY <1>3 DEF WithPacket
  <2>2. [WithPacket.packet EXCEPT !.packetdata = d] = Packet(d)
    <3>1. [Packet(<<>>) EXCEPT !.packetdata = d] = Packet(d)
      BY PacketWith DEF Packet
    <3> QED BY <2>1, <3>1
  <2>3. [WithPacket EXCEPT !.packet.packetdata = d] = [WithPacket EXCEPT !.packet = Packet(d)]
    BY <1>3, <2>1, <2>2
  <2>4. [WithPacket EXCEPT !.packet = Packet(d)] = [WithCode EXCEPT !.packet = Packet(d)]
    BY DEF WithPacket
  <2> QED BY <2>3, <2>4
<1> QED BY <1>4, <1>5

\* What the constants say of a request.
LEMMA RequestFacts ==
  ASSUME sent \in Requests
  PROVE  /\ sent \in Message
         /\ sent.username \in Seq(Byte) /\ Utf8(sent.username)
         /\ sent.password \in Seq(Byte) /\ Utf8(sent.password)
         /\ sent.messagecode \in {1, 3} /\ (has_packet(sent) <=> sent.messagecode = 3)
         /\ sent = [WithCode EXCEPT !.packet = sent.packet]
         /\ has_packet(sent) => sent.packet = Packet(sent.packet.packetdata)
         /\ ~has_packet(sent) => sent.packet = NoPacket /\ sent = WithCode
<1>1. sent \in Message
  BY RequestTypes
<1>2. Utf8(<<>>)
  BY EmptySeq DEF Utf8
<1>3. CASE \E u \in Names, p \in Names : sent = EstablishRequest(u, p)
  <2>1. PICK u \in Names, p \in Names : sent = EstablishRequest(u, p)
    BY <1>3
  <2>2. Utf8(u) /\ Utf8(p) /\ u \in Seq(Byte) /\ p \in Seq(Byte)
    BY NamesAssumption, ConstantTypes
  <2>3. sent = [username |-> u, password |-> p, ip |-> <<>>, submask |-> <<>>, gateway |-> <<>>,
                dns |-> <<>>, type |-> 0, messagecode |-> 1, passwordencrypttype |-> 0,
                linkencrypttype |-> 0, packet |-> NoPacket]
    BY <2>1 DEF EstablishRequest, NewMessage, REQUEST, ESTABLISH
  <2>4. sent = WithCode /\ sent = [WithCode EXCEPT !.packet = sent.packet]
    BY <2>3, WithCodeIs
  <2>5. ~has_packet(sent)
    BY <2>3 DEF has_packet, NoPacket
  <2> QED BY <1>1, <2>2, <2>3, <2>4, <2>5
<1>4. CASE \E n \in PacketSizes : sent = DataRequest(Text(n))
  <2>1. PICK n \in PacketSizes : sent = DataRequest(Text(n))
    BY <1>4
  <2> DEFINE d == Text(n)
  <2>2. sent = [username |-> <<>>, password |-> <<>>, ip |-> <<>>, submask |-> <<>>, gateway |-> <<>>,
                dns |-> <<>>, type |-> 0, messagecode |-> 3, passwordencrypttype |-> 0,
                linkencrypttype |-> 0, packet |-> Packet(d)]
    BY <2>1 DEF DataRequest, NewMessage, REQUEST, DATA
  <2> HIDE DEF d
  <2>3. sent = [WithCode EXCEPT !.packet = sent.packet]
    BY <2>2, WithCodeIs
  <2>4. has_packet(sent) /\ sent.packet = Packet(sent.packet.packetdata)
    BY <2>2 DEF has_packet, Packet
  <2> QED BY <1>1, <1>2, <2>2, <2>3, <2>4, EmptySeq
<1> QED BY <1>3, <1>4 DEF Requests

\* What a request's bytes are.
LEMMA OneByte ==
  ASSUME NEW c \in {1, 3}
  PROVE  EnumField(72, c) = <<72>> \o Varint(c) /\ Len(EnumField(72, c)) = 2 /\ VarintSize(c) = 1
         /\ EnumField(72, c) \in Seq(Byte)
<1>1. c \in Nat /\ c < 128 /\ c # 0
  OBVIOUS
<1>2. VarintSize(c) = 1
  BY <1>1, SizeOf
<1>3. EnumField(72, c) = <<72>> \o Varint(c) /\ EnumSize(c) = 2
  BY <1>1, <1>2 DEF EnumField, EnumSize
<1>4. EnumField(72, c) \in Seq(Byte) /\ Len(EnumField(72, c)) = EnumSize(c)
  BY <1>1, Tags, EnumFieldBytes
<1> QED BY <1>2, <1>3, <1>4

\* Defaults are not written.
LEMMA NoField ==
  ASSUME NEW tag
  PROVE  Field(tag, <<>>) = <<>> /\ EnumField(tag, 0) = <<>>
BY DEF Field, EnumField

\* Nothing before or behind a sequence.
LEMMA EmptyRight ==
  ASSUME NEW s \in Seq(Byte)
  PROVE  s \o <<>> = s /\ <<>> \o s = s
BY ConcatEmptySeq

\* The fields of a request, in the order of their bytes.
LEMMA RequestWire ==
  ASSUME sent \in Requests
  PROVE  Serialize(sent) =
           Field(10, sent.username) \o Field(18, sent.password)
             \o EnumField(72, sent.messagecode) \o PacketField(sent)
<1> DEFINE f1 == Field(10, sent.username)
           f2 == Field(18, sent.password)
           c == sent.messagecode
           e == EnumField(72, c)
<1>1. /\ f1 \in Seq(Byte) /\ f2 \in Seq(Byte) /\ f1 \o f2 \in Seq(Byte)
      /\ e \in Seq(Byte) /\ <<>> \in Seq(Byte)
  BY RequestFacts, Tags, FieldBytes, OneByte, PartsAdd, EmptySeq
<1>2. /\ sent.ip = <<>> /\ sent.submask = <<>> /\ sent.gateway = <<>> /\ sent.dns = <<>>
      /\ sent.type = 0 /\ sent.passwordencrypttype = 0 /\ sent.linkencrypttype = 0
  <2>1. sent = [WithCode EXCEPT !.packet = sent.packet]
    BY RequestFacts
  <2> QED BY <2>1, WithCodeIs
<1>3. TextFields(sent) = f1 \o f2
  <2>1. TextFields(sent) = f1 \o f2 \o <<>> \o <<>> \o <<>>
    BY <1>2, Tags, NoField DEF TextFields
  <2> HIDE DEF f1, f2
  <2> QED BY <1>1, <2>1, EmptyRight
<1>4. EnumFields(sent) = e
  <2>1. EnumFields(sent) = <<>> \o e \o <<>> \o <<>>
    BY <1>2, Tags, NoField DEF EnumFields
  <2> HIDE DEF e
  <2> QED BY <1>1, <2>1, EmptyRight
<1>5. DnsFields(sent) = <<>>
  <2> DEFINE seqs == [i \in 1..Len(sent.dns) |-> Delimited(DnsTag, sent.dns[i])]
  <2>1. Len(sent.dns) = 0
    BY <1>2, EmptySeq
  <2>2. DOMAIN seqs = {}
    BY <2>1
  <2>3. seqs = <<>>
    BY <2>2
  <2> HIDE DEF seqs
  <2>4. FlattenSeq(seqs) = seqs
    BY <2>3, EmptySeq DEF FlattenSeq
  <2> QED BY <2>3, <2>4 DEF DnsFields, seqs
<1>6. Serialize(sent) = ((f1 \o f2) \o <<>>) \o e \o PacketField(sent)
  BY <1>3, <1>4, <1>5 DEF Serialize
<1>7. (f1 \o f2) \o <<>> = f1 \o f2
  BY <1>1, EmptyRight
<1> QED BY <1>6, <1>7

\* Where they stand, and how long they can be.
LEMMA RequestStands ==
  ASSUME Whole
  PROVE  /\ Limited
         /\ Stands(1, Field(10, sent.username))
         /\ AfterUsername \in Nat \ {0} /\ Stands(AfterUsername, Field(18, sent.password))
         /\ AfterPassword \in Nat \ {0} /\ Stands(AfterPassword, EnumField(72, sent.messagecode))
         /\ AfterCode \in Nat \ {0} /\ Stands(AfterCode, PacketField(sent))
         /\ AfterCode + Len(PacketField(sent)) = limit + 1
         /\ Len(Field(10, sent.username)) <= MaxInt /\ Len(Field(18, sent.password)) <= MaxInt
         /\ Len(PacketField(sent)) <= MaxInt
<1> DEFINE f1 == Field(10, sent.username)
           f2 == Field(18, sent.password)
           e == EnumField(72, sent.messagecode)
           f3 == PacketField(sent)
<1>1. /\ f1 \in Seq(Byte) /\ f2 \in Seq(Byte) /\ e \in Seq(Byte) /\ f3 \in Seq(Byte)
      /\ Len(e) = 2
  BY RequestFacts, Tags, FieldBytes, OneByte, PacketFieldBytes DEF Whole
<1>2. input = f1 \o f2 \o e \o f3 /\ limit = Len(input)
  BY RequestWire DEF Whole
<1>3. Len(input) <= MaxInt /\ Len(input) \in Nat
  BY NamesAssumption, RequestTypes, SizeCountsBytes DEF Whole
<1>4. AfterUsername = 1 + Len(f1) /\ AfterPassword = AfterUsername + Len(f2) /\ AfterCode = AfterPassword + 2
  BY DEF AfterUsername, AfterPassword, AfterCode
<1> DEFINE g == f1 \o f2
           h == g \o e
<1>5. g \in Seq(Byte) /\ Len(g) = Len(f1) + Len(f2) /\ Len(f1) \in Nat /\ Len(f2) \in Nat
  BY <1>1, PartsAdd
<1>6. h \in Seq(Byte) /\ Len(h) = Len(f1) + Len(f2) + 2
  <2> HIDE DEF g, e
  <2>1. g \o e \in Seq(Byte) /\ Len(g \o e) = Len(g) + Len(e)
    BY <1>1, <1>5, PartsAdd
  <2> QED BY <1>1, <1>5, <2>1
<1> HIDE DEF f1, f2, e, f3, g, h
<1>7. /\ h \o f3 \in Seq(Byte) /\ Len(h \o f3) = Len(f1) + Len(f2) + 2 + Len(f3)
      /\ Len(f3) \in Nat
  BY <1>1, <1>6, PartsAdd
<1>8. input = h \o f3 /\ limit = Len(input)
  BY <1>2 DEF g, h
<1>9. Limited
  BY <1>3, <1>7, <1>8 DEF Limited
<1>10. Stands(1, h \o f3)
  <2>1. 1 + Len(input) <= limit + 1
    BY <1>2, <1>3
  <2>2. \A i \in 1..Len(input) : 1 + i - 1 = i
    BY <1>3
  <2>3. Stands(1, input)
    BY <2>1, <2>2 DEF Stands
  <2> QED BY <1>8, <2>3
<1>11. Stands(1, h) /\ Stands(1 + Len(h), f3)
  <2>1. h \in Seq(Byte) /\ f3 \in Seq(Byte) /\ 1 \in Nat \ {0}
    BY <1>1, <1>6
  <2> QED BY <1>9, <1>10, <2>1, StandInTurn
<1>12. Stands(1, g) /\ Stands(1 + Len(g), e)
  BY <1>1, <1>5, <1>9, <1>11, StandInTurn DEF h
<1>13. Stands(1, f1) /\ Stands(1 + Len(f1), f2)
  BY <1>1, <1>9, <1>12, StandInTurn DEF g
<1>14. /\ AfterUsername = 1 + Len(f1) /\ AfterPassword = 1 + Len(g) /\ AfterCode = 1 + Len(h)
       /\ AfterUsername \in Nat \ {0} /\ AfterPassword \in Nat \ {0} /\ AfterCode \in Nat \ {0}
       /\ AfterCode + Len(f3) = limit + 1
  BY <1>4, <1>5, <1>6, <1>7, <1>8
<1>15. MaxInt \in Int
  BY SMT DEF MaxInt
<1>16. Len(f1) <= MaxInt /\ Len(f2) <= MaxInt /\ Len(f3) <= MaxInt
  BY <1>3, <1>5, <1>7, <1>8, <1>15
<1> QED BY <1>9, <1>11, <1>12, <1>13, <1>14, <1>16 DEF f1, f2, e, f3

-----------------------------------------------------------------------------
\* The parts of a field that stands at a place.
LEMMA DelimitedStands ==
  ASSUME Limited, NEW p \in Nat \ {0}, NEW tag \in Byte, NEW s \in Seq(Byte),
         Stands(p, Delimited(tag, s))
  PROVE  /\ Stands(p, <<tag>>) /\ Stands(p + 1, Varint(Len(s)) \o s)
         /\ Stands(p + 1, Varint(Len(s))) /\ Stands(p + 1 + VarintSize(Len(s)), s)
<1> DEFINE k == VarintSize(Len(s))
           v == Varint(Len(s))
           vs == v \o s
           t == <<tag>>
<1>1. v \in Seq(Byte) /\ Len(v) = k
  BY LenProperties, VarintBytes
<1>2. t \in Seq(Byte) /\ Len(t) = 1
  OBVIOUS
<1>3. Delimited(tag, s) = (t \o v) \o s
  BY DEF Delimited
<1> HIDE DEF v, t, k
<1>4. vs \in Seq(Byte) /\ (t \o v) \o s = t \o vs
  BY <1>1, <1>2, PartsAdd, ConcatAssociative
<1> HIDE DEF vs
<1>5. Stands(p, t) /\ Stands(p + 1, vs)
  <2>1. Stands(p, t \o vs)
    BY <1>3, <1>4
  <2>2. Stands(p, t) /\ Stands(p + Len(t), vs)
    BY <1>2, <1>4, <2>1, StandInTurn
  <2> QED BY <1>2, <2>2
<1>6. Stands(p + 1, v) /\ Stands(p + 1 + Len(v), s)
  <2>1. p + 1 \in Nat \ {0} /\ Stands(p + 1, v \o s)
    BY <1>5 DEF vs
  <2> QED BY <1>1, <2>1, StandInTurn
<1> QED BY <1>1, <1>5, <1>6 DEF t, v, vs, k

\* A field that stands at pos is read: its tag, its length and its bytes.
LEMMA FieldRead ==
  ASSUME Limited, pos \in Nat \ {0}, NEW tag \in 0..127, NEW s \in Seq(Byte), Len(s) <= MaxInt,
         Stands(pos, Delimited(tag, s))
  PROVE  /\ Tag = tag /\ AfterTag = pos + 1
         /\ LengthAt(pos + 1).ok = TRUE
         /\ BytesAt(pos + 1) = [ok |-> TRUE, value |-> s, next |-> pos + 1 + DelimitedSize(Len(s))]
<1>1. tag \in Byte /\ <<tag>>[1] = tag /\ Len(<<tag>>) = 1
  BY DEF Byte
<1>2. Stands(pos, <<tag>>) /\ Stands(pos + 1, Varint(Len(s)) \o s)
  BY <1>1, DelimitedStands
<1>3. pos \in 1..limit /\ input[pos] = tag
  <2>1. pos + 1 <= limit + 1 /\ \A i \in 1..1 : input[pos + i - 1] = <<tag>>[i]
    BY <1>1, <1>2 DEF Stands
  <2>2. input[pos + 1 - 1] = tag
    BY <1>1, <2>1
  <2> QED BY <2>1, <2>2, LimitedFacts
<1>4. Tag = tag /\ AfterTag = pos + 1
  BY <1>3, TagRead
<1>5. pos + 1 \in Nat \ {0}
  OBVIOUS
<1> QED BY <1>2, <1>4, <1>5, BytesRead

\* Which step a tag calls for.
LEMMA OnlyParse ==
  ASSUME Next, rest = <<>> \/ result = "parsing"
  PROVE  Parse
<1>1. ~ClientReads
  <2>1. ClientReads => result # "parsing"
    BY DEF ClientReads
  <2>2. ClientReads => \E n \in 1..Len(rest) : TRUE
    BY DEF ClientReads
  <2>3. rest = <<>> => Len(rest) = 0
    BY EmptySeq
  <2> QED BY <2>1, <2>2, <2>3
<1> QED BY <1>1 DEF Next

\* The tags that end a message,
LEMMA EndTags ==
  /\ Tag = 0 => EndsMessage
  /\ \A t \in {10, 18, 34, 42, 50, 58, 64, 72, 106, 98} : Tag = t => ~EndsMessage
BY DEF EndsMessage, WireType

\* and those that are known.
LEMMA KnownTags ==
  /\ ~inside /\ Tag \in {10, 18, 34, 42, 50, 58, 64, 72, 106} => Known(Tag)
  /\ inside /\ Tag = 98 => Known(Tag)
<1>1. Range(TextTag) = {TextTag[f] : f \in DOMAIN TextTag}
  BY DEF Range
<1>2. {TextTag[f] : f \in DOMAIN TextTag} = {10, 18, 34, 42, 50}
  BY DEF TextTag
<1>3. EnumTag["type"] = 64 /\ EnumTag["messagecode"] = 72
  BY DEF EnumTag
<1>4. "type" \in DOMAIN EnumTag /\ "messagecode" \in DOMAIN EnumTag
  BY DEF EnumTag
<1>5. 64 \in Range(EnumTag) /\ 72 \in Range(EnumTag)
  BY <1>3, <1>4 DEF Range
<1> QED BY <1>1, <1>2, <1>5, Tags DEF Known

\* The tag decides on the step.
LEMMA WhichStep ==
  ASSUME Parse
  PROVE  /\ ~inside /\ Tag \in {10, 18, 34, 42, 50} => ReadText
         /\ ~inside /\ Tag = 58 => ReadDns
         /\ ~inside /\ Tag \in {64, 72} => ReadEnum
         /\ ~inside /\ Tag = 106 => EnterPacket
         /\ inside /\ Tag = 98 => ReadPacketData
         /\ inside /\ Tag = 0 => EndPacket
         /\ ~inside /\ Tag = 0 => EndMessage
<1>1. ReadText => ~inside /\ Tag \in {10, 18, 34, 42, 50}
  BY TagValues DEF ReadText
<1>2. ReadEnum => ~inside /\ Tag \in {64, 72, 80, 88}
  BY TagValues DEF ReadEnum
<1>3. ReadDns => ~inside /\ Tag = 58
  BY Tags DEF ReadDns
<1>4. EnterPacket => ~inside /\ Tag = 106
  BY Tags DEF EnterPacket
<1>5. ReadPacketData => inside /\ Tag = 98
  BY Tags DEF ReadPacketData
<1>6. (EndPacket => inside /\ EndsMessage) /\ (EndMessage => ~inside /\ EndsMessage)
  BY DEF EndPacket, EndMessage
<1>7. Unusual => ~EndsMessage /\ ~Known(Tag)
  BY DEF Unusual
<1> QED BY <1>1, <1>2, <1>3, <1>4, <1>5, <1>6, <1>7, EndTags, KnownTags DEF Parse

-----------------------------------------------------------------------------
\* The parser's steps through a request, stage by stage.
LEMMA TextStep ==
  ASSUME Limited, Parse, result = "parsing", ~inside, pos \in Nat \ {0},
         NEW f \in DOMAIN TextTag, NEW tag \in {10, 18, 34, 42, 50}, TextTag[f] = tag,
         NEW s \in Seq(Byte), Utf8(s), s # <<>>,
         Stands(pos, Field(tag, s)), Len(Field(tag, s)) <= MaxInt
  PROVE  /\ result' = "parsing" /\ inside' = FALSE /\ limit' = limit
         /\ pos' = pos + Len(Field(tag, s)) /\ msg' = [msg EXCEPT ![f] = s]
<1> DEFINE n == DelimitedSize(Len(s))
           read == BytesAt(AfterTag)
           whole == LengthAt(AfterTag).ok
           checked == [read EXCEPT !.ok = @ /\ Utf8(read.value)]
<1>1. tag \in Byte /\ tag \in 0..127
  BY DEF Byte
<1>2. Field(tag, s) = Delimited(tag, s) /\ Len(Field(tag, s)) = 1 + n /\ n \in Nat
  <2>1. Field(tag, s) = Delimited(tag, s)
    BY DEF Field
  <2> QED BY <1>1, <2>1, DelimitedBytes
<1>3. Len(s) <= MaxInt
  <2>1. n = VarintSize(Len(s)) + Len(s) /\ VarintSize(Len(s)) \in 1..5 /\ Len(s) \in Nat
    BY LenProperties, SizeOf DEF DelimitedSize
  <2>2. MaxInt \in Int
    BY SMT DEF MaxInt
  <2> HIDE DEF n
  <2> QED BY <1>2, <2>1, <2>2
<1>4. /\ Tag = tag /\ AfterTag = pos + 1 /\ whole = TRUE
      /\ read = [ok |-> TRUE, value |-> s, next |-> pos + 1 + n]
  <2>1. Stands(pos, Delimited(tag, s))
    BY <1>2
  <2>2. /\ Tag = tag /\ AfterTag = pos + 1 /\ LengthAt(pos + 1).ok = TRUE
        /\ BytesAt(pos + 1) = [ok |-> TRUE, value |-> s, next |-> pos + 1 + n]
    BY <1>1, <1>3, <2>1, FieldRead
  <2> QED BY <2>2
<1>5. ReadText
  BY <1>4, WhichStep
<1>6. PICK g \in DOMAIN TextTag :
        /\ Tag = TextTag[g]
        /\ msg' = [msg EXCEPT ![g] = IF whole THEN read.value ELSE @]
        /\ Advance(checked)
  BY <1>5 DEF ReadText
<1>7. g = f
  BY <1>4, <1>6, TagValues
<1> HIDE DEF n, read, whole
<1>8. checked.ok = TRUE /\ checked.next = pos + 1 + n
  BY <1>4
<1>9. msg' = [msg EXCEPT ![f] = s]
  BY <1>4, <1>6, <1>7
<1> HIDE DEF checked
<1>10. pos' = pos + 1 + n /\ result' = result
  BY <1>6, <1>8 DEF Advance
<1>11. inside' = inside /\ limit' = limit
  BY <1>5 DEF ReadText
<1>12. inside' = FALSE
  BY <1>5, <1>11, SMT DEF ReadText
<1> QED BY <1>2, <1>9, <1>10, <1>11, <1>12

\* Reading the code, where it stands,
LEMMA CodeStep ==
  ASSUME Limited, Parse, result = "parsing", ~inside, pos \in Nat \ {0}, NEW c \in {1, 3},
         Stands(pos, EnumField(72, c))
  PROVE  /\ result' = "parsing" /\ inside' = FALSE /\ limit' = limit
         /\ pos' = pos + 2 /\ msg' = [msg EXCEPT !.messagecode = c]
<1> DEFINE read == VarintAt(AfterTag)
           t == <<72>>
           v == Varint(c)
<1>1. /\ EnumField(72, c) = t \o v /\ VarintSize(c) = 1
      /\ t \in Seq(Byte) /\ Len(t) = 1 /\ t[1] = 72
      /\ v \in Seq(Byte) /\ c \in Nat
  <2>1. c \in Nat
    OBVIOUS
  <2>2. v \in Seq(Byte)
    BY <2>1, VarintBytes
  <2>3. t \in Seq(Byte) /\ Len(t) = 1 /\ t[1] = 72
    BY Tags
  <2>4. EnumField(72, c) = t \o v /\ VarintSize(c) = 1
    BY OneByte
  <2> HIDE DEF t, v
  <2> QED BY <2>1, <2>2, <2>3, <2>4
<1> HIDE DEF t, v
<1>2. Stands(pos, t) /\ Stands(pos + 1, v)
  <2>1. Stands(pos, t \o v)
    BY <1>1
  <2>2. Stands(pos, t) /\ Stands(pos + Len(t), v)
    BY <1>1, <2>1, StandInTurn
  <2> QED BY <1>1, <2>2
<1>3. pos \in 1..limit /\ input[pos] = 72
  <2>1. pos + 1 <= limit + 1 /\ \A i \in 1..1 : input[pos + i - 1] = t[i]
    BY <1>1, <1>2 DEF Stands
  <2>2. input[pos + 1 - 1] = 72
    BY <1>1, <2>1
  <2> QED BY <2>1, <2>2, LimitedFacts
<1>4. Tag = 72 /\ AfterTag = pos + 1
  <2>1. 72 \in 0..127
    OBVIOUS
  <2> QED BY <1>3, <2>1, TagRead
<1>5. read = [ok |-> TRUE, value |-> c, next |-> pos + 2]
  <2>1. c <= MaxInt /\ pos + 1 \in Nat \ {0} /\ c \in Nat
    BY SMT DEF MaxInt
  <2>2. VarintAt(pos + 1) = [ok |-> TRUE, value |-> c, next |-> pos + 1 + VarintSize(c)]
    BY <1>2, <2>1, VarintRead DEF v
  <2>3. pos + 1 + 1 = pos + 2
    OBVIOUS
  <2> QED BY <1>1, <1>4, <2>2, <2>3
<1>6. ReadEnum
  BY <1>4, WhichStep
<1>7. PICK g \in DOMAIN EnumTag :
        /\ Tag = EnumTag[g]
        /\ msg' = [msg EXCEPT ![g] = IF read.ok THEN read.value ELSE @]
        /\ Advance(read)
  BY <1>6 DEF ReadEnum
<1>8. g = "messagecode"
  BY <1>4, <1>7 DEF EnumTag
<1> HIDE DEF read
<1>9. msg' = [msg EXCEPT !.messagecode = c]
  BY <1>5, <1>7, <1>8
<1>10. pos' = pos + 2 /\ result' = result
  BY <1>5, <1>7 DEF Advance
<1>11. inside' = FALSE /\ limit' = limit
  BY <1>6, SMT DEF ReadEnum
<1> QED BY <1>9, <1>10, <1>11

\* entering the packet,
LEMMA LengthStep ==
  ASSUME Limited, Parse, result = "parsing", ~inside, pos \in Nat \ {0}, NEW s \in Seq(Byte),
         Stands(pos, Delimited(106, s)), Len(Delimited(106, s)) <= MaxInt,
         pos + Len(Delimited(106, s)) = limit + 1
  PROVE  /\ result' = "parsing" /\ inside' = TRUE /\ limit' = limit
         /\ pos' = pos + 1 + VarintSize(Len(s)) /\ msg' = [msg EXCEPT !.packet.present = TRUE]
<1> DEFINE n == Len(s)
           k == VarintSize(n)
           l == VarintAt(AfterTag)
<1>1. /\ n \in Nat /\ k \in 1..5 /\ Len(Varint(n)) = k /\ Varint(n) \in Seq(Byte)
      /\ Len(Delimited(106, s)) = 1 + k + n
  <2>1. n \in Nat
    BY LenProperties
  <2>2. Len(Delimited(106, s)) = 1 + DelimitedSize(n)
    BY Tags, DelimitedBytes
  <2>3. k \in 1..5 /\ Len(Varint(n)) = k /\ Varint(n) \in Seq(Byte)
    BY <2>1, VarintBytes
  <2>4. DelimitedSize(n) = k + n
    BY DEF DelimitedSize
  <2> HIDE DEF n, k
  <2> QED BY <2>1, <2>2, <2>3, <2>4
<1>2. n <= MaxInt /\ pos + 1 + k + n = limit + 1 /\ limit \in Nat
  <2>1. MaxInt \in Int
    BY SMT DEF MaxInt
  <2> HIDE DEF n, k
  <2> QED BY <1>1, <2>1, LimitedFacts
<1>3. Tag = 106 /\ AfterTag = pos + 1
  <2>1. 106 \in 0..127
    OBVIOUS
  <2> QED BY <1>2, <2>1, FieldRead
<1>4. Stands(pos + 1, Varint(n))
  BY Tags, DelimitedStands
<1>5. l = [ok |-> TRUE, value |-> n, next |-> pos + 1 + k]
  <2>1. pos + 1 \in Nat \ {0}
    OBVIOUS
  <2> QED BY <1>1, <1>2, <1>3, <1>4, <2>1, VarintRead
<1>6. EnterPacket
  BY <1>3, WhichStep
<1>7. /\ msg' = [msg EXCEPT !.packet.present = TRUE] /\ inside' = l.ok
      /\ limit' = (IF l.ok THEN Min({limit, l.next + l.value - 1}) ELSE limit)
      /\ Advance(l)
  BY <1>6 DEF EnterPacket
<1> HIDE DEF l, n, k
<1>8. l.ok = TRUE /\ l.next = pos + 1 + k /\ l.next + l.value - 1 = limit
  BY <1>1, <1>2, <1>5
<1>9. limit' = limit
  <2>1. Min({limit, limit}) = limit
    BY <1>2, MinOfTwo
  <2> QED BY <1>7, <1>8, <2>1
<1>10. pos' = pos + 1 + k /\ result' = result
  BY <1>7, <1>8 DEF Advance
<1> QED BY <1>7, <1>8, <1>9, <1>10 DEF k, n

\* reading its data,
LEMMA DataStep ==
  ASSUME Limited, Parse, result = "parsing", inside = TRUE, pos \in Nat \ {0}, NEW s \in Seq(Byte),
         s # <<>>, Stands(pos, Field(98, s)), Len(Field(98, s)) <= MaxInt
  PROVE  /\ result' = "parsing" /\ inside' = TRUE /\ limit' = limit
         /\ pos' = pos + Len(Field(98, s)) /\ msg' = [msg EXCEPT !.packet.packetdata = s]
<1> DEFINE n == DelimitedSize(Len(s))
           read == BytesAt(AfterTag)
           whole == LengthAt(AfterTag).ok
<1>1. Field(98, s) = Delimited(98, s) /\ Len(Field(98, s)) = 1 + n /\ n \in Nat
  <2>1. Field(98, s) = Delimited(98, s)
    BY DEF Field
  <2> QED BY <2>1, Tags, DelimitedBytes
<1>2. Len(s) <= MaxInt
  <2>1. n = VarintSize(Len(s)) + Len(s) /\ VarintSize(Len(s)) \in 1..5 /\ Len(s) \in Nat
    BY LenProperties, SizeOf DEF DelimitedSize
  <2>2. MaxInt \in Int
    BY SMT DEF MaxInt
  <2> HIDE DEF n
  <2> QED BY <1>1, <2>1, <2>2
<1>3. /\ Tag = 98 /\ whole = TRUE
      /\ read = [ok |-> TRUE, value |-> s, next |-> pos + 1 + n]
  <2>1. Stands(pos, Delimited(98, s)) /\ 98 \in 0..127
    BY <1>1
  <2>2. /\ Tag = 98 /\ AfterTag = pos + 1 /\ LengthAt(pos + 1).ok = TRUE
        /\ BytesAt(pos + 1) = [ok |-> TRUE, value |-> s, next |-> pos + 1 + n]
    BY <1>2, <2>1, FieldRead
  <2> QED BY <2>2
<1>4. ReadPacketData
  BY <1>3, WhichStep
<1>5. /\ msg' = [msg EXCEPT !.packet.packetdata = IF whole THEN read.value ELSE @]
      /\ Advance(read)
  BY <1>4 DEF ReadPacketData
<1> HIDE DEF n, read, whole
<1>6. msg' = [msg EXCEPT !.packet.packetdata = s]
  BY <1>3, <1>5
<1>7. pos' = pos + 1 + n /\ result' = result
  BY <1>3, <1>5 DEF Advance
<1>8. inside' = TRUE /\ limit' = limit
  BY <1>4 DEF ReadPacketData
<1> QED BY <1>1, <1>6, <1>7, <1>8

\* and ending the packet or the message.
LEMMA EndStep ==
  ASSUME Limited, Parse, result = "parsing", inside \in BOOLEAN, pos = limit + 1, limit = Len(input)
  PROVE  /\ msg' = msg /\ pos' = pos /\ limit' = limit /\ inside' = FALSE
         /\ result' = IF inside THEN "parsing" ELSE "ok"
<1>1. pos > limit
  BY LimitedFacts
<1>2. Tag = 0
  BY <1>1 DEF Tag
<1>3. CASE inside
  <2>1. EndPacket
    BY <1>2, <1>3, WhichStep
  <2> QED BY <1>1, <1>3, <2>1 DEF EndPacket
<1>4. CASE ~inside
  <2>1. EndMessage
    BY <1>2, <1>4, WhichStep
  <2> QED BY <1>4, <2>1 DEF EndMessage
<1> QED BY <1>3, <1>4

\* The stages after a step.
LEMMA StagesNext == InRequest' <=> Staged'
BY Stages, PTL

\* A step within a request moves none of the stages.
LEMMA SameStages ==
  ASSUME Whole, Parse, limit' = limit
  PROVE  /\ Whole' /\ sent' = sent /\ Len(input)' = Len(input) /\ has_packet(sent)' = has_packet(sent)
         /\ AfterUsername' = AfterUsername /\ WithUsername' = WithUsername
         /\ AfterPassword' = AfterPassword /\ WithPassword' = WithPassword
         /\ AfterCode' = AfterCode /\ WithCode' = WithCode
         /\ AfterLength' = AfterLength /\ WithPacket' = WithPacket
<1>1. sent' = sent /\ input' = input /\ rest' = rest
  BY ParseKeeps
<1>2. AfterUsername' = AfterUsername /\ WithUsername' = WithUsername
  BY <1>1 DEF AfterUsername, WithUsername
<1>3. AfterPassword' = AfterPassword /\ WithPassword' = WithPassword
  BY <1>1, <1>2 DEF AfterPassword, WithPassword
<1>4. AfterCode' = AfterCode /\ WithCode' = WithCode
  BY <1>1, <1>3 DEF AfterCode, WithCode
<1>5. AfterLength' = AfterLength /\ WithPacket' = WithPacket
  BY <1>1, <1>4 DEF AfterLength, WithPacket
<1>6. Whole' /\ has_packet(sent)' = has_packet(sent) /\ Len(input)' = Len(input)
  BY <1>1 DEF Whole, has_packet
<1> QED BY <1>1, <1>2, <1>3, <1>4, <1>5, <1>6

\* From each stage to a later one, the last first: the ends,
LEMMA LastStages ==
  ASSUME Whole, Parse, inside \in BOOLEAN,
         InPacket(Len(input) + 1, sent) \/ At(Len(input) + 1, sent)
  PROVE  Staged'
<1>1. Limited /\ result = "parsing" /\ pos = limit + 1 /\ limit = Len(input) /\ msg = sent
  BY RequestStands DEF InPacket, At, Whole
<1>2. /\ msg' = msg /\ pos' = pos /\ limit' = limit /\ inside' = FALSE
      /\ result' = IF inside THEN "parsing" ELSE "ok"
  BY <1>1, EndStep
<1>3. Whole' /\ sent' = sent /\ Len(input)' = Len(input)
  BY <1>2, SameStages
<1>4. CASE inside
  BY <1>1, <1>2, <1>3, <1>4 DEF Staged, At
<1>5. CASE ~inside
  BY <1>1, <1>2, <1>3, <1>5 DEF Staged
<1> QED BY <1>4, <1>5

\* the data of the packet,
LEMMA PacketStage ==
  ASSUME Whole, Parse, inside \in BOOLEAN, has_packet(sent), InPacket(AfterLength, WithPacket)
  PROVE  Staged'
<1> DEFINE d == sent.packet.packetdata
           s == Field(98, d)
           whole == Delimited(106, s)
<1>1. d \in Seq(Byte) /\ s \in Seq(Byte) /\ Len(s) = PacketSize(sent.packet)
  <2>1. d \in Seq(Byte)
    BY RequestFacts DEF Whole, Message
  <2> QED BY <2>1, Tags, FieldBytes DEF PacketSize
<1>2. PacketField(sent) = whole
  BY Tags DEF PacketField, SerializePacket
<1>3. /\ Len(whole) = 1 + VarintSize(Len(s)) + Len(s)
      /\ VarintSize(Len(s)) \in 1..5 /\ Len(s) \in Nat
  <2>1. Len(whole) = 1 + DelimitedSize(Len(s)) /\ Len(s) \in Nat
    BY <1>1, Tags, DelimitedBytes, LenProperties
  <2> HIDE DEF s
  <2> QED BY <2>1, SizeOf DEF DelimitedSize
<1>4. AfterLength = AfterCode + 1 + VarintSize(Len(s))
  BY <1>1 DEF AfterLength
<1>5. /\ Limited /\ AfterCode \in Nat \ {0} /\ AfterCode + Len(whole) = limit + 1
      /\ Len(whole) <= MaxInt /\ Stands(AfterCode, whole)
  BY <1>2, RequestStands
<1>6. AfterLength + Len(s) = limit + 1 /\ AfterLength \in Nat \ {0} /\ Len(s) <= MaxInt
  <2>1. MaxInt \in Int
    BY SMT DEF MaxInt
  <2>2. limit \in Nat
    BY <1>5, LimitedFacts
  <2> HIDE DEF s, whole
  <2>3. AfterLength + Len(s) = AfterCode + Len(whole) /\ AfterLength \in Nat \ {0}
    <3> DEFINE n == Len(s)
               k == VarintSize(n)
    <3>1. /\ Len(whole) = 1 + k + n /\ k \in 1..5 /\ n \in Nat
          /\ AfterLength = AfterCode + 1 + k /\ AfterCode \in Nat \ {0}
      BY <1>3, <1>4, <1>5
    <3> HIDE DEF n, k
    <3>2. AfterLength + n = AfterCode + Len(whole) /\ AfterLength \in Nat \ {0}
      BY <3>1
    <3> QED BY <3>2 DEF n
  <2> QED BY <1>3, <1>5, <2>1, <2>2, <2>3
<1>7. result = "parsing" /\ inside = TRUE /\ pos = AfterLength /\ msg = WithPacket
  BY DEF InPacket
<1>8. sent = [WithCode EXCEPT !.packet = Packet(d)]
  BY RequestFacts DEF Whole
<1>9. CASE d = <<>>
  <2>1. Len(s) = 0
    BY <1>9, EmptySeq DEF Field
  <2>2. AfterLength = Len(input) + 1
    BY <1>6, <2>1, LimitedFacts DEF Whole
  <2>3. sent = WithPacket
    BY <1>8, <1>9 DEF WithPacket
  <2> QED BY <2>2, <2>3, LastStages
<1>10. CASE d # <<>>
  <2>1. Stands(pos, s)
    <3>1. Stands(AfterCode + 1 + VarintSize(Len(s)), s)
      <4> HIDE DEF s
      <4> QED BY <1>1, <1>5, Tags, DelimitedStands
    <3> QED BY <1>4, <1>7, <3>1
  <2>2. /\ result' = "parsing" /\ inside' = TRUE /\ limit' = limit
        /\ pos' = pos + Len(s) /\ msg' = [msg EXCEPT !.packet.packetdata = d]
    BY <1>1, <1>5, <1>6, <1>7, <1>10, <2>1, DataStep
  <2>3. msg' = sent
    <3>1. [WithPacket EXCEPT !.packet.packetdata = d] = [WithCode EXCEPT !.packet = Packet(d)]
      BY WithPacketIs
    <3> QED BY <1>7, <1>8, <2>2, <3>1
  <2>4. pos' = Len(input) + 1
    BY <1>6, <1>7, <2>2 DEF Whole
  <2>5. Whole' /\ sent' = sent /\ Len(input)' = Len(input)
    BY <2>2, SameStages
  <2> QED BY <2>2, <2>3, <2>4, <2>5 DEF Staged, InPacket
<1> QED BY <1>9, <1>10

\* the packet or the end behind the code,
LEMMA CodeDone ==
  ASSUME Whole, Parse, inside \in BOOLEAN, At(AfterCode, WithCode)
  PROVE  Staged'
<1> DEFINE s == SerializePacket(sent.packet)
<1>1. /\ Limited /\ AfterCode \in Nat \ {0} /\ AfterCode + Len(PacketField(sent)) = limit + 1
      /\ Len(PacketField(sent)) <= MaxInt /\ Stands(AfterCode, PacketField(sent))
  BY RequestStands
<1>2. result = "parsing" /\ ~inside /\ pos = AfterCode /\ msg = WithCode
  BY DEF At
<1>3. CASE ~has_packet(sent)
  <2>1. Len(PacketField(sent)) = 0
    BY <1>3, EmptySeq DEF PacketField
  <2>2. AfterCode = Len(input) + 1
    BY <1>1, <2>1 DEF Whole
  <2>3. sent = WithCode
    BY <1>3, RequestFacts DEF Whole
  <2> QED BY <2>2, <2>3, LastStages
<1>4. CASE has_packet(sent)
  <2>1. s \in Seq(Byte) /\ Len(s) = PacketSize(sent.packet)
    <3>1. sent.packet.packetdata \in Seq(Byte)
      BY RequestFacts DEF Whole, Message
    <3> QED BY <3>1, Tags, FieldBytes DEF PacketSize, SerializePacket
  <2>2. PacketField(sent) = Delimited(106, s)
    BY <1>4, Tags DEF PacketField
  <2> HIDE DEF s
  <2>3. /\ result' = "parsing" /\ inside' = TRUE /\ limit' = limit
        /\ pos' = pos + 1 + VarintSize(Len(s)) /\ msg' = [msg EXCEPT !.packet.present = TRUE]
    BY <1>1, <1>2, <2>1, <2>2, LengthStep
  <2>4. msg' = WithPacket
    BY <1>2, <2>3, WithPacketIs
  <2>5. pos' = AfterLength
    BY <1>2, <2>1, <2>3 DEF AfterLength
  <2>6. /\ Whole' /\ has_packet(sent)' = has_packet(sent) /\ AfterLength' = AfterLength
        /\ WithPacket' = WithPacket
    BY <2>3, SameStages
  <2> QED BY <1>4, <2>3, <2>4, <2>5, <2>6 DEF Staged, InPacket
<1> QED BY <1>3, <1>4

\* the code,
LEMMA CodeStage ==
  ASSUME Whole, Parse, At(AfterPassword, WithPassword)
  PROVE  Staged'
<1>1. Limited /\ AfterPassword \in Nat \ {0} /\ Stands(AfterPassword, EnumField(72, sent.messagecode))
  BY RequestStands
<1>2. result = "parsing" /\ ~inside /\ pos = AfterPassword /\ msg = WithPassword
  BY DEF At
<1>3. sent.messagecode \in {1, 3}
  BY RequestFacts DEF Whole
<1>4. /\ result' = "parsing" /\ inside' = FALSE /\ limit' = limit
      /\ pos' = pos + 2 /\ msg' = [msg EXCEPT !.messagecode = sent.messagecode]
  BY <1>1, <1>2, <1>3, CodeStep
<1>5. pos' = AfterCode /\ msg' = WithCode
  BY <1>2, <1>4 DEF AfterCode, WithCode
<1>6. Whole' /\ AfterCode' = AfterCode /\ WithCode' = WithCode
  BY <1>4, SameStages
<1> QED BY <1>4, <1>5, <1>6 DEF Staged, At

\* the password,
LEMMA PasswordStage ==
  ASSUME Whole, Parse, At(AfterUsername, WithUsername)
  PROVE  Staged'
<1> DEFINE p == sent.password
<1>1. /\ Limited /\ AfterUsername \in Nat \ {0} /\ Stands(AfterUsername, Field(18, p))
      /\ Len(Field(18, p)) <= MaxInt
  BY RequestStands
<1>2. result = "parsing" /\ ~inside /\ pos = AfterUsername /\ msg = WithUsername
  BY DEF At
<1>3. p \in Seq(Byte) /\ Utf8(p)
  BY RequestFacts DEF Whole
<1>4. CASE p = <<>>
  <2>1. AfterPassword = AfterUsername
    BY <1>1, <1>4, NoField, EmptySeq DEF AfterPassword
  <2>2. WithPassword = WithUsername
    BY <1>4, WithCodeIs
  <2> QED BY <2>1, <2>2, CodeStage
<1>5. CASE p # <<>>
  <2>1. TextTag["password"] = 18 /\ "password" \in DOMAIN TextTag /\ 18 \in {10, 18, 34, 42, 50}
    BY DEF TextTag
  <2> HIDE DEF p
  <2>2. /\ result' = "parsing" /\ inside' = FALSE /\ limit' = limit
        /\ pos' = pos + Len(Field(18, p)) /\ msg' = [msg EXCEPT !["password"] = p]
    BY <1>1, <1>2, <1>3, <1>5, <2>1, TextStep
  <2>3. pos' = AfterPassword /\ msg' = WithPassword
    BY <1>2, <2>2 DEF AfterPassword, WithPassword, p
  <2>4. Whole' /\ AfterPassword' = AfterPassword /\ WithPassword' = WithPassword
    BY <2>2, SameStages
  <2> QED BY <2>2, <2>3, <2>4 DEF Staged, At
<1> QED BY <1>4, <1>5

\* and the user name.
LEMMA UsernameStage ==
  ASSUME Whole, Parse, At(1, NewMessage)
  PROVE  Staged'
<1> DEFINE u == sent.username
<1>1. /\ Limited /\ Stands(1, Field(10, u)) /\ Len(Field(10, u)) <= MaxInt
  BY RequestStands
<1>2. result = "parsing" /\ ~inside /\ pos = 1 /\ msg = NewMessage
  BY DEF At
<1>3. u \in Seq(Byte) /\ Utf8(u)
  BY RequestFacts DEF Whole
<1>4. CASE u = <<>>
  <2>1. AfterUsername = 1
    BY <1>4, NoField, EmptySeq DEF AfterUsername
  <2>2. WithUsername = NewMessage
    BY <1>4, WithCodeIs DEF NewMessage
  <2> QED BY <2>1, <2>2, PasswordStage
<1>5. CASE u # <<>>
  <2>1. /\ TextTag["username"] = 10 /\ "username" \in DOMAIN TextTag /\ 10 \in {10, 18, 34, 42, 50}
        /\ pos \in Nat \ {0} /\ Stands(pos, Field(10, u))
    BY <1>1, <1>2 DEF TextTag
  <2> HIDE DEF u
  <2>2. /\ result' = "parsing" /\ inside' = FALSE /\ limit' = limit
        /\ pos' = pos + Len(Field(10, u)) /\ msg' = [msg EXCEPT !["username"] = u]
    BY <1>1, <1>2, <1>3, <1>5, <2>1, TextStep
  <2>3. pos' = AfterUsername /\ msg' = WithUsername
    BY <1>2, <2>2 DEF AfterUsername, WithUsername, u
  <2>4. Whole' /\ AfterUsername' = AfterUsername /\ WithUsername' = WithUsername
    BY <2>2, SameStages
  <2> QED BY <2>2, <2>3, <2>4 DEF Staged, At
<1> QED BY <1>4, <1>5

\* A request starts at the first stage,
LEMMA RequestInit ==
  ASSUME Init, kind = "request"
  PROVE  InRequest
<1>1. sent \in Requests /\ input = Body(sent) /\ rest = <<>>
  BY DEF Init
<1>2. input = Serialize(sent) /\ limit = Len(input)
  BY <1>1, RequestTypes, BodyIsSerialize DEF Init
<1>3. At(1, NewMessage)
  BY DEF Init, At
<1> QED BY <1>1, <1>2, <1>3, Stages DEF Staged, Whole

\* and each step keeps it at one.
LEMMA RequestNext ==
  ASSUME TypeOK, kind = "request", InRequest, [Next]_vars
  PROVE  InRequest'
<1>1. CASE UNCHANGED vars
  <2>1. Staged
    BY Stages
  <2>2. Staged'
    BY <1>1, <2>1 DEF vars, Staged, Whole, At, InPacket, AfterUsername, AfterPassword, AfterCode,
       AfterLength, WithUsername, WithPassword, WithCode, WithPacket, has_packet
  <2> QED BY <2>2, StagesNext
<1>2. CASE Next
  <2>1. Staged
    BY Stages
  <2>2. Whole /\ rest = <<>> /\ inside \in BOOLEAN
    BY <2>1 DEF Staged, Whole, TypeOK
  <2>3. Parse
    BY <1>2, <2>2, OnlyParse
  <2>4. result = "parsing"
    BY <2>3 DEF Parse, ReadText, ReadDns, ReadEnum, EnterPacket, ReadPacketData, EndPacket,
       EndMessage, Unusual, Parsing
  <2>5. Staged'
    BY <2>1, <2>2, <2>3, <2>4, UsernameStage, PasswordStage, CodeStage, CodeDone, PacketStage,
       LastStages DEF Staged
  <2> QED BY <2>5, StagesNext
<1> QED BY <1>1, <1>2

-----------------------------------------------------------------------------
\* What the constants say of a response.
LEMMA ResponseFacts ==
  ASSUME sent \in Responses
  PROVE  /\ sent \in Message
         /\ sent.username \in Names /\ sent.password \in Names
         /\ sent.ip = Address /\ sent.gateway = Address /\ sent.submask = Mask
         /\ sent.dns = <<Resolver>>
         /\ sent.type = 1 /\ sent.messagecode = 1
         /\ sent.passwordencrypttype = 0 /\ sent.linkencrypttype = 0 /\ ~has_packet(sent)
<1>1. PICK u \in Names, p \in Names : sent = EstablishResponse(EstablishRequest(u, p))
  BY DEF Responses
<1>2. EstablishRequest(u, p) =
        [username |-> u, password |-> p, ip |-> <<>>, submask |-> <<>>, gateway |-> <<>>,
         dns |-> <<>>, type |-> 0, messagecode |-> 1, passwordencrypttype |-> 0,
         linkencrypttype |-> 0, packet |-> NoPacket]
  <2>1. ASSUME NEW s, s = EstablishRequest(u, p)
        PROVE  s = [username |-> u, password |-> p, ip |-> <<>>, submask |-> <<>>, gateway |-> <<>>,
                    dns |-> <<>>, type |-> 0, messagecode |-> 1, passwordencrypttype |-> 0,
                    linkencrypttype |-> 0, packet |-> NoPacket]
    BY <2>1 DEF EstablishRequest, NewMessage, REQUEST, ESTABLISH
  <2> QED BY <2>1
<1>3. Append(<<>>, Resolver) = <<Resolver>>
  OBVIOUS
<1>4. sent =
        [username |-> u, password |-> p, ip |-> Address, submask |-> Mask, gateway |-> Address,
         dns |-> <<Resolver>>, type |-> 1, messagecode |-> 1, passwordencrypttype |-> 0,
         linkencrypttype |-> 0, packet |-> NoPacket]
  <2> DEFINE r == EstablishRequest(u, p)
             m1 == [r EXCEPT !.type = RESPONSE]
             m2 == [m1 EXCEPT !.messagecode = ESTABLISH]
             m3 == [m2 EXCEPT !.ip = Address]
             m4 == [m3 EXCEPT !.gateway = Address]
             m5 == [m4 EXCEPT !.submask = Mask]
             a == Address
             mask == Mask
             w == Resolver
  <2>1. m1 = [username |-> u, password |-> p, ip |-> <<>>, submask |-> <<>>, gateway |-> <<>>,
              dns |-> <<>>, type |-> 1, messagecode |-> 1, passwordencrypttype |-> 0,
              linkencrypttype |-> 0, packet |-> NoPacket]
    BY <1>2 DEF RESPONSE
  <2> HIDE DEF m1
  <2>2. m2 = m1
    BY <2>1 DEF ESTABLISH
  <2> HIDE DEF m2
  <2>3. m3 = [username |-> u, password |-> p, ip |-> a, submask |-> <<>>, gateway |-> <<>>,
              dns |-> <<>>, type |-> 1, messagecode |-> 1, passwordencrypttype |-> 0,
              linkencrypttype |-> 0, packet |-> NoPacket]
    BY <2>1, <2>2
  <2> HIDE DEF m3
  <2>4. m4 = [username |-> u, password |-> p, ip |-> a, submask |-> <<>>, gateway |-> a,
              dns |-> <<>>, type |-> 1, messagecode |-> 1, passwordencrypttype |-> 0,
              linkencrypttype |-> 0, packet |-> NoPacket]
    BY <2>3
  <2> HIDE DEF m4
  <2>5. m5 = [username |-> u, password |-> p, ip |-> a, submask |-> mask, gateway |-> a,
              dns |-> <<>>, type |-> 1, messagecode |-> 1, passwordencrypttype |-> 0,
              linkencrypttype |-> 0, packet |-> NoPacket]
    BY <2>4
  <2>6. EstablishResponse(r) = [m5 EXCEPT !.dns = Append(@, w)]
    BY DEF EstablishResponse, m1, m2, m3, m4
  <2> HIDE DEF m5, r
  <2>7. [m5 EXCEPT !.dns = Append(@, w)] = [m5 EXCEPT !.dns = <<w>>]
    BY <1>3, <2>5
  <2> HIDE DEF a, mask, w
  <2>8. EstablishResponse(r) =
          [username |-> u, password |-> p, ip |-> a, submask |-> mask, gateway |-> a,
           dns |-> <<w>>, type |-> 1, messagecode |-> 1, passwordencrypttype |-> 0,
           linkencrypttype |-> 0, packet |-> NoPacket]
    BY <2>5, <2>6, <2>7
  <2> QED BY <1>1, <2>8 DEF r, a, mask, w
<1>5. ~has_packet(sent)
  BY <1>4 DEF has_packet, NoPacket
<1> QED BY <1>4, <1>5, ResponseTypes

\* The names are those of a request, whose size is an int.
LEMMA NamesFit ==
  ASSUME NEW s \in Names, NEW tag \in Byte
  PROVE  s \in Seq(Byte) /\ Utf8(s) /\ Len(Field(tag, s)) <= MaxInt
<1> DEFINE m == EstablishRequest(s, s)
<1>1. s \in Seq(Byte) /\ Utf8(s)
  BY ConstantTypes, NamesAssumption
<1>2. m \in Requests /\ m \in Message
  BY RequestTypes DEF Requests
<1>3. m.username = s /\ m.password = s /\ ~has_packet(m)
  BY DEF EstablishRequest, NewMessage, has_packet, NoPacket
<1>4. ByteSizeLong(m) <= MaxInt
  BY <1>2, NamesAssumption
<1>5. /\ FieldSize(m.username) \in Nat /\ FieldSize(m.password) \in Nat /\ FieldSize(m.ip) \in Nat
      /\ FieldSize(m.submask) \in Nat /\ FieldSize(m.gateway) \in Nat
  BY <1>2, Tags, FieldBytes DEF Message
<1>6. DnsSize(m) \in Nat /\ EnumsSize(m) \in Nat
  BY <1>2, DnsFieldsBytes, EnumFieldsBytes
<1>7. ByteSizeLong(m) = TextsSize(m) + DnsSize(m) + EnumsSize(m) + 0
  BY <1>3 DEF ByteSizeLong
<1> HIDE DEF m
<1>8. TextsSize(m) >= FieldSize(m.username)
  BY <1>5 DEF TextsSize
<1>9. MaxInt \in Int /\ TextsSize(m) \in Nat
  BY <1>5, SMT DEF MaxInt, TextsSize
<1>10. FieldSize(s) <= MaxInt
  BY <1>3, <1>4, <1>5, <1>6, <1>7, <1>8, <1>9
<1>11. Len(Field(tag, s)) = FieldSize(s)
  BY <1>1, FieldBytes
<1> QED BY <1>1, <1>10, <1>11

\* The texts that the server adds.
LEMMA AddedText ==
  ASSUME NEW n \in 1..4, NEW tag \in Byte
  PROVE  /\ Text(n) \in Seq(Byte) /\ Utf8(Text(n)) /\ Text(n) # <<>> /\ Len(Text(n)) = n
         /\ Field(tag, Text(n)) = Delimited(tag, Text(n))
         /\ Len(Field(tag, Text(n))) = n + 2 /\ n + 2 <= MaxInt
<1>1. Text(n) \in Seq(Byte) /\ Len(Text(n)) = n
  BY TextIsSeq
<1>2. Text(n) # <<>>
  BY <1>1, EmptySeq
<1>3. \A i \in 1..n : Text(n)[i] = 97
  BY DEF Text, Letter
<1>4. Utf8(Text(n))
  <2> DEFINE t == Text(n)
  <2>1. Len(t) = n /\ \A i \in 1..n : t[i] = 97
    BY <1>1, <1>3
  <2> HIDE DEF t
  <2>2. Utf8(t)
    <3> SUFFICES ASSUME NEW i \in 1..Len(t)
                 PROVE  /\ t[i] \in 0..191 \cup 194..223
                        /\ t[i] \in 128..191 => i > 1 /\ t[i - 1] \in 194..223
                        /\ t[i] \in 194..223 => i < Len(t) /\ t[i + 1] \in 128..191
      BY DEF Utf8
    <3>1. t[i] = 97
      BY <2>1
    <3>2. 97 \in 0..191 \cup 194..223 /\ ~(97 \in 128..191) /\ ~(97 \in 194..223)
      OBVIOUS
    <3> QED BY ONLY <3>1, <3>2
  <2> QED BY <2>2 DEF t
<1>5. Field(tag, Text(n)) = Delimited(tag, Text(n))
  BY <1>2 DEF Field
<1>6. VarintSize(n) = 1
  BY SizeOf
<1>7. Len(Delimited(tag, Text(n))) = 1 + DelimitedSize(n) /\ DelimitedSize(n) = n + 1
  BY <1>1, <1>6, DelimitedBytes DEF DelimitedSize
<1>8. n + 2 <= MaxInt
  BY SMT DEF MaxInt
<1> QED BY <1>1, <1>2, <1>4, <1>5, <1>7, <1>8

\* One resolver is written.
LEMMA OneResolver ==
  ASSUME NEW m, m.dns = <<Resolver>>
  PROVE  DnsFields(m) = Delimited(58, Resolver)
<1> DEFINE d == Delimited(58, Resolver)
           seqs == [i \in 1..Len(m.dns) |-> Delimited(DnsTag, m.dns[i])]
           Cat(g) == g = [i \in 1..Len(seqs) |-> IF i = 1 THEN seqs[i] ELSE g[i - 1] \o seqs[i]]
           cat == CHOOSE g : Cat(g)
           h == [i \in 1..1 |-> d]
<1>1. seqs = <<d>>
  <2>1. Len(m.dns) = 1 /\ \A i \in 1..1 : m.dns[i] = Resolver
    OBVIOUS
  <2>2. seqs = [i \in 1..1 |-> d]
    BY <2>1, Tags
  <2> QED BY <2>2
<1>2. Len(seqs) = 1 /\ seqs[1] = d
  BY <1>1
<1> HIDE DEF d, seqs
<1>3. Cat(h)
  BY <1>2
<1>4. Cat(cat)
  BY <1>3
<1> HIDE DEF cat
<1>5. cat[1] = d
  BY <1>2, <1>4
<1>6. FlattenSeq(seqs) = cat[Len(seqs)]
  BY <1>2 DEF FlattenSeq, cat
<1> QED BY <1>2, <1>5, <1>6 DEF DnsFields, seqs, d

-----------------------------------------------------------------------------
\* What a sequence holds at a place.
Holds(b, p, t) == p + Len(t) <= Len(b) + 1 /\ \A i \in 1..Len(t) : b[p + i - 1] = t[i]

\* Of two parts in a row, it holds the first there and the second behind it.
LEMMA HeldInTurn ==
  ASSUME NEW b \in Seq(Byte), NEW p \in Nat \ {0}, NEW s \in Seq(Byte), NEW t \in Seq(Byte),
         Holds(b, p, s \o t)
  PROVE  Holds(b, p, s) /\ Holds(b, p + Len(s), t) /\ p + Len(s) \in Nat \ {0}
<1>1. /\ Len(s) \in Nat /\ Len(t) \in Nat /\ Len(b) \in Nat
      /\ Len(s \o t) = Len(s) + Len(t)
  BY LenProperties, PartsAdd
<1>2. \A i \in 1..(Len(s) + Len(t)) : (s \o t)[i] = IF i <= Len(s) THEN s[i] ELSE t[i - Len(s)]
  BY ConcatProperties
<1>3. \A i \in 1..(Len(s) + Len(t)) : b[p + i - 1] = (s \o t)[i]
  BY <1>1 DEF Holds
<1>4. ASSUME NEW i \in 1..Len(s) PROVE b[p + i - 1] = s[i]
  <2>1. i \in 1..(Len(s) + Len(t)) /\ i <= Len(s)
    BY <1>1
  <2> QED BY <1>2, <1>3, <2>1
<1>5. ASSUME NEW i \in 1..Len(t) PROVE b[p + Len(s) + i - 1] = t[i]
  <2> DEFINE j == Len(s) + i
  <2>1. j \in 1..(Len(s) + Len(t)) /\ ~(j <= Len(s)) /\ j - Len(s) = i
    BY <1>1
  <2>2. p + Len(s) + i - 1 = p + j - 1
    BY <1>1
  <2> HIDE DEF j
  <2> QED BY <1>2, <1>3, <2>1, <2>2
<1>6. p + Len(s) <= Len(b) + 1 /\ p + Len(s) + Len(t) <= Len(b) + 1 /\ p + Len(s) \in Nat \ {0}
  BY <1>1 DEF Holds
<1> QED BY <1>4, <1>5, <1>6 DEF Holds

\* Eight parts one after the other.
InParts(b, f1, f2, f3, f4, f5, d, e1, e2) ==
  LET p2 == 1 + Len(f1)
      p3 == p2 + Len(f2)
      p4 == p3 + Len(f3)
      p5 == p4 + Len(f4)
      p6 == p5 + Len(f5)
      p7 == p6 + Len(d)
      p8 == p7 + Len(e1)
  IN  /\ b \in Seq(Byte) /\ p8 + Len(e2) = Len(b) + 1
      /\ Holds(b, 1, f1)
      /\ p2 \in Nat \ {0} /\ Holds(b, p2, f2)
      /\ p3 \in Nat \ {0} /\ Holds(b, p3, f3)
      /\ p4 \in Nat \ {0} /\ Holds(b, p4, f4)
      /\ p5 \in Nat \ {0} /\ Holds(b, p5, f5)
      /\ p6 \in Nat \ {0} /\ Holds(b, p6, d)
      /\ p7 \in Nat \ {0} /\ Holds(b, p7, e1)
      /\ p8 \in Nat \ {0} /\ Holds(b, p8, e2)

\* A sequence holds the parts it is made of.
LEMMA EightParts ==
  ASSUME NEW b, NEW f1 \in Seq(Byte), NEW f2 \in Seq(Byte), NEW f3 \in Seq(Byte),
         NEW f4 \in Seq(Byte), NEW f5 \in Seq(Byte), NEW d \in Seq(Byte),
         NEW e1 \in Seq(Byte), NEW e2 \in Seq(Byte),
         b = f1 \o f2 \o f3 \o f4 \o f5 \o d \o (e1 \o e2)
  PROVE  InParts(b, f1, f2, f3, f4, f5, d, e1, e2)
<1> DEFINE g2 == f1 \o f2
           g3 == g2 \o f3
           g4 == g3 \o f4
           g5 == g4 \o f5
           g6 == g5 \o d
           e == e1 \o e2
<1>1. g2 \in Seq(Byte) /\ Len(g2) = Len(f1) + Len(f2) /\ Len(f1) \in Nat /\ Len(f2) \in Nat
  BY PartsAdd
<1>2. e \in Seq(Byte) /\ Len(e) = Len(e1) + Len(e2) /\ Len(e1) \in Nat /\ Len(e2) \in Nat
  BY PartsAdd
<1> HIDE DEF g2, e
<1>3. g3 \in Seq(Byte) /\ Len(g3) = Len(g2) + Len(f3) /\ Len(f3) \in Nat
  BY <1>1, PartsAdd
<1> HIDE DEF g3
<1>4. g4 \in Seq(Byte) /\ Len(g4) = Len(g3) + Len(f4) /\ Len(f4) \in Nat
  BY <1>3, PartsAdd
<1> HIDE DEF g4
<1>5. g5 \in Seq(Byte) /\ Len(g5) = Len(g4) + Len(f5) /\ Len(f5) \in Nat
  BY <1>4, PartsAdd
<1> HIDE DEF g5
<1>6. g6 \in Seq(Byte) /\ Len(g6) = Len(g5) + Len(d) /\ Len(d) \in Nat
  BY <1>5, PartsAdd
<1> HIDE DEF g6
<1>7. b = g6 \o e
  BY DEF g6, g5, g4, g3, g2, e
<1>8. b \in Seq(Byte) /\ Len(b) = Len(g6) + Len(e)
  <2>1. g6 \o e \in Seq(Byte) /\ Len(g6 \o e) = Len(g6) + Len(e)
    BY <1>2, <1>6, PartsAdd
  <2> QED BY <1>7, <2>1
<1>9. Holds(b, 1, g6 \o e)
  <2>1. Holds(b, 1, b)
    <3>1. Len(b) \in Nat
      BY <1>8, LenProperties
    <3> QED BY <3>1 DEF Holds
  <2> QED BY <1>7, <2>1
<1>0. 1 \in Nat \ {0}
  OBVIOUS
<1>10. Holds(b, 1, g6) /\ Holds(b, 1 + Len(g6), e)
  BY <1>0, <1>2, <1>6, <1>8, <1>9, HeldInTurn
<1>11. Holds(b, 1, g5) /\ Holds(b, 1 + Len(g5), d)
  <2>1. Holds(b, 1, g5 \o d)
    BY <1>10 DEF g6
  <2> QED BY <1>0, <1>5, <1>8, <2>1, HeldInTurn
<1>12. Holds(b, 1, g4) /\ Holds(b, 1 + Len(g4), f5)
  <2>1. Holds(b, 1, g4 \o f5)
    BY <1>11 DEF g5
  <2> QED BY <1>0, <1>4, <1>8, <2>1, HeldInTurn
<1>13. Holds(b, 1, g3) /\ Holds(b, 1 + Len(g3), f4)
  <2>1. Holds(b, 1, g3 \o f4)
    BY <1>12 DEF g4
  <2> QED BY <1>0, <1>3, <1>8, <2>1, HeldInTurn
<1>14. Holds(b, 1, g2) /\ Holds(b, 1 + Len(g2), f3)
  <2>1. Holds(b, 1, g2 \o f3)
    BY <1>13 DEF g3
  <2> QED BY <1>0, <1>1, <1>8, <2>1, HeldInTurn
<1>15. Holds(b, 1, f1) /\ Holds(b, 1 + Len(f1), f2)
  <2>1. Holds(b, 1, f1 \o f2)
    BY <1>14 DEF g2
  <2> QED BY <1>0, <1>1, <1>8, <2>1, HeldInTurn
<1>16. 1 + Len(g6) \in Nat \ {0}
  <2>1. Len(g6) \in Nat
    BY <1>6, LenProperties
  <2> QED BY <2>1
<1>17. Holds(b, 1 + Len(g6), e1) /\ Holds(b, 1 + Len(g6) + Len(e1), e2)
  <2> DEFINE p == 1 + Len(g6)
  <2>1. Holds(b, p, e1 \o e2) /\ p \in Nat \ {0}
    BY <1>10, <1>16 DEF e
  <2> HIDE DEF p
  <2>2. Holds(b, p, e1) /\ Holds(b, p + Len(e1), e2)
    BY <1>8, <2>1, HeldInTurn
  <2> QED BY <2>2 DEF p
<1> DEFINE p2 == 1 + Len(f1)
           p3 == p2 + Len(f2)
           p4 == p3 + Len(f3)
           p5 == p4 + Len(f4)
           p6 == p5 + Len(f5)
           p7 == p6 + Len(d)
           p8 == p7 + Len(e1)
<1>18. /\ p3 = 1 + Len(g2) /\ p4 = 1 + Len(g3) /\ p5 = 1 + Len(g4)
       /\ p6 = 1 + Len(g5) /\ p7 = 1 + Len(g6) /\ p8 = 1 + Len(g6) + Len(e1)
       /\ p8 + Len(e2) = Len(b) + 1
       /\ p2 \in Nat \ {0} /\ p3 \in Nat \ {0} /\ p4 \in Nat \ {0} /\ p5 \in Nat \ {0}
       /\ p6 \in Nat \ {0} /\ p7 \in Nat \ {0} /\ p8 \in Nat \ {0}
  <2>1. p2 = 1 + Len(f1) /\ p2 \in Nat \ {0}
    BY <1>1
  <2> HIDE DEF p2
  <2>2. p3 = 1 + Len(g2) /\ p3 \in Nat \ {0}
    BY <1>1, <2>1
  <2> HIDE DEF p3
  <2>3. p4 = 1 + Len(g3) /\ p4 \in Nat \ {0}
    BY <1>1, <1>3, <2>2
  <2> HIDE DEF p4
  <2>4. p5 = 1 + Len(g4) /\ p5 \in Nat \ {0}
    BY <1>3, <1>4, <2>3
  <2> HIDE DEF p5
  <2>5. p6 = 1 + Len(g5) /\ p6 \in Nat \ {0}
    BY <1>4, <1>5, <2>4
  <2> HIDE DEF p6
  <2>6. p7 = 1 + Len(g6) /\ p7 \in Nat \ {0}
    BY <1>5, <1>6, <2>5
  <2> HIDE DEF p7
  <2>7. p8 = 1 + Len(g6) + Len(e1) /\ p8 \in Nat \ {0} /\ p8 + Len(e2) = Len(b) + 1
    BY <1>2, <1>6, <1>8, <2>6
  <2> QED BY <2>1, <2>2, <2>3, <2>4, <2>5, <2>6, <2>7
<1> HIDE DEF p2, p3, p4, p5, p6, p7, p8
<1>19. /\ b \in Seq(Byte) /\ p8 + Len(e2) = Len(b) + 1
       /\ Holds(b, 1, f1)
       /\ p2 \in Nat \ {0} /\ Holds(b, p2, f2)
       /\ p3 \in Nat \ {0} /\ Holds(b, p3, f3)
       /\ p4 \in Nat \ {0} /\ Holds(b, p4, f4)
       /\ p5 \in Nat \ {0} /\ Holds(b, p5, f5)
       /\ p6 \in Nat \ {0} /\ Holds(b, p6, d)
       /\ p7 \in Nat \ {0} /\ Holds(b, p7, e1)
       /\ p8 \in Nat \ {0} /\ Holds(b, p8, e2)
  <2>1. p2 = 1 + Len(f1)
    BY DEF p2
  <2> QED BY <1>8, <1>10, <1>11, <1>12, <1>13, <1>14, <1>15, <1>17, <1>18, <2>1
<1> QED BY <1>19 DEF InParts, p2, p3, p4, p5, p6, p7, p8

\* The fields of a response, in the order of their bytes.
LEMMA ResponseWire ==
  ASSUME sent \in Responses
  PROVE  Serialize(sent) =
           Field(10, sent.username) \o Field(18, sent.password) \o Field(34, Address)
             \o Field(42, Mask) \o Field(50, Address) \o Delimited(58, Resolver)
             \o (EnumField(64, 1) \o EnumField(72, 1))
<1> DEFINE f1 == Field(10, sent.username)
           f2 == Field(18, sent.password)
           f3 == Field(34, Address)
           f4 == Field(42, Mask)
           f5 == Field(50, Address)
           t == f1 \o f2 \o f3 \o f4 \o f5
           d == Delimited(58, Resolver)
           e1 == EnumField(64, 1)
           e2 == EnumField(72, 1)
           e == e1 \o e2
<1>1. /\ sent \in Message /\ sent.ip = Address /\ sent.gateway = Address /\ sent.submask = Mask
      /\ sent.dns = <<Resolver>> /\ sent.type = 1 /\ sent.messagecode = 1
      /\ sent.passwordencrypttype = 0 /\ sent.linkencrypttype = 0 /\ ~has_packet(sent)
  BY ResponseFacts
<1>2. TextFields(sent) = t
  BY <1>1, Tags DEF TextFields
<1>3. DnsFields(sent) = d
  BY <1>1, OneResolver
<1>4. e1 \in Seq(Byte) /\ e2 \in Seq(Byte) /\ 1 \in Nat
  BY Tags, EnumFieldBytes
<1>5. EnumFields(sent) = e
  <2>1. EnumFields(sent) = e1 \o e2 \o <<>> \o <<>>
    BY <1>1, Tags, NoField DEF EnumFields
  <2> HIDE DEF e1, e2
  <2>2. e1 \o e2 \in Seq(Byte)
    BY <1>4, PartsAdd
  <2> QED BY <2>1, <2>2, EmptyRight
<1>6. PacketField(sent) = <<>>
  BY <1>1 DEF PacketField
<1>7. Serialize(sent) = t \o d \o e \o <<>>
  BY <1>2, <1>3, <1>5, <1>6 DEF Serialize
<1>8. t \o d \o e \in Seq(Byte)
  <2>1. t \in Seq(Byte) /\ d \in Seq(Byte) /\ e \in Seq(Byte)
    BY <1>1, <1>2, <1>3, <1>5, TextFieldsBytes, DnsFieldsBytes, EnumFieldsBytes
  <2> HIDE DEF t, d, e
  <2>2. t \o d \in Seq(Byte)
    BY <2>1, PartsAdd
  <2> QED BY <2>1, <2>2, PartsAdd
<1> HIDE DEF t, d, e
<1>9. Serialize(sent) = t \o d \o e
  BY <1>7, <1>8, EmptyRight
<1> QED BY <1>9 DEF t, d, e

\* The texts of a response, in the order of their fields.
TextAt == <<"username", "password", "ip", "submask", "gateway">>

\* One byte is written for a small enum, and its tag.
LEMMA OneByteType ==
  EnumField(64, 1) = <<64>> \o Varint(1) /\ Len(EnumField(64, 1)) = 2
  /\ EnumField(64, 1) \in Seq(Byte)
<1>1. VarintSize(1) = 1
  BY SizeOf
<1>2. EnumSize(1) = 2
  BY <1>1 DEF EnumSize
<1>3. EnumField(64, 1) = <<64>> \o Varint(1)
  BY DEF EnumField
<1>4. 64 \in Byte /\ 1 \in Nat
  BY Tags
<1> QED BY <1>2, <1>3, <1>4, EnumFieldBytes

\* What the texts are.
LEMMA ResponseTexts ==
  ASSUME sent \in Responses, NEW k \in 1..5
  PROVE  LET f == TextAt[k]
         IN  /\ f \in DOMAIN TextTag /\ TextTag[f] \in {10, 18, 34, 42, 50}
             /\ sent[f] \in Seq(Byte) /\ Utf8(sent[f])
             /\ Len(Field(TextTag[f], sent[f])) \in Nat
             /\ Len(Field(TextTag[f], sent[f])) <= MaxInt
             /\ sent[f] = <<>> => k < 3
<1>1. \A t \in {10, 18, 34, 42, 50} : t \in Byte
  BY Tags
<1>2. /\ sent.username \in Names /\ sent.password \in Names
      /\ sent.ip = Text(3) /\ sent.gateway = Text(3) /\ sent.submask = Text(4)
  BY ResponseFacts DEF Address, Mask
<1>3. ASSUME NEW s \in Names, NEW t \in {10, 18, 34, 42, 50}
      PROVE  s \in Seq(Byte) /\ Utf8(s) /\ Len(Field(t, s)) \in Nat /\ Len(Field(t, s)) <= MaxInt
  <2>1. s \in Seq(Byte) /\ Utf8(s) /\ Len(Field(t, s)) <= MaxInt
    BY <1>1, NamesFit
  <2>2. Len(Field(t, s)) \in Nat
    BY <1>1, <2>1, FieldBytes
  <2> QED BY <2>1, <2>2
<1>4. ASSUME NEW n \in 1..4, NEW t \in {10, 18, 34, 42, 50}
      PROVE  /\ Text(n) \in Seq(Byte) /\ Utf8(Text(n)) /\ Len(Field(t, Text(n))) \in Nat
             /\ Len(Field(t, Text(n))) <= MaxInt /\ Text(n) # <<>>
  <2>1. t \in Byte
    BY <1>1
  <2>2. /\ Text(n) \in Seq(Byte) /\ Utf8(Text(n)) /\ Text(n) # <<>>
        /\ Len(Field(t, Text(n))) = n + 2 /\ n + 2 <= MaxInt
    BY <2>1, AddedText
  <2>3. n + 2 \in Nat
    OBVIOUS
  <2> QED BY <2>2, <2>3
<1>5. CASE k = 1
  <2>1. TextAt[k] = "username" /\ "username" \in DOMAIN TextTag /\ TextTag["username"] = 10
    BY <1>5 DEF TextAt, TextTag
  <2>2. sent[TextAt[k]] \in Names
    BY <1>2, <2>1
  <2> QED BY <1>3, <1>5, <2>1, <2>2
<1>6. CASE k = 2
  <2>1. TextAt[k] = "password" /\ "password" \in DOMAIN TextTag /\ TextTag["password"] = 18
    BY <1>6 DEF TextAt, TextTag
  <2>2. sent[TextAt[k]] \in Names
    BY <1>2, <2>1
  <2> QED BY <1>3, <1>6, <2>1, <2>2
<1>7. CASE k = 3
  <2>1. TextAt[k] = "ip" /\ "ip" \in DOMAIN TextTag /\ TextTag["ip"] = 34
    BY <1>7 DEF TextAt, TextTag
  <2>2. sent[TextAt[k]] = Text(3)
    BY <1>2, <2>1
  <2> QED BY <1>4, <2>1, <2>2
<1>8. CASE k = 4
  <2>1. TextAt[k] = "submask" /\ "submask" \in DOMAIN TextTag /\ TextTag["submask"] = 42
    BY <1>8 DEF TextAt, TextTag
  <2>2. sent[TextAt[k]] = Text(4)
    BY <1>2, <2>1
  <2> QED BY <1>4, <2>1, <2>2
<1>9. CASE k = 5
  <2>1. TextAt[k] = "gateway" /\ "gateway" \in DOMAIN TextTag /\ TextTag["gateway"] = 50
    BY <1>9 DEF TextAt, TextTag
  <2>2. sent[TextAt[k]] = Text(3)
    BY <1>2, <2>1
  <2> QED BY <1>4, <2>1, <2>2
<1> QED BY <1>5, <1>6, <1>7, <1>8, <1>9

\* Where the fields of a response are.
LEMMA ResponsePlaces ==
  ASSUME sent \in Responses
  PROVE  LET b == Serialize(sent)
         IN  /\ b \in Seq(Byte) /\ Len(b) \in Nat
             /\ \A k \in 1..8 : FieldStarts[k] \in Nat \ {0}
             /\ FieldStarts[1] = 1
             /\ \A k \in 1..5 :
                  LET t == Field(TextTag[TextAt[k]], sent[TextAt[k]])
                  IN  Holds(b, FieldStarts[k], t) /\ FieldStarts[k + 1] = FieldStarts[k] + Len(t)
             /\ Holds(b, FieldStarts[6], Field(58, Resolver)) /\ FieldStarts[7] = FieldStarts[6] + 4
             /\ Holds(b, FieldStarts[7], EnumField(64, 1)) /\ FieldStarts[8] = FieldStarts[7] + 2
             /\ Holds(b, FieldStarts[8], EnumField(72, 1)) /\ FieldStarts[8] + 2 = Len(b) + 1
<1> DEFINE b == Serialize(sent)
           f1 == Field(10, sent.username)
           f2 == Field(18, sent.password)
           f3 == Field(34, Address)
           f4 == Field(42, Mask)
           f5 == Field(50, Address)
           d == Delimited(58, Resolver)
           e1 == EnumField(64, 1)
           e2 == EnumField(72, 1)
           p2 == 1 + Len(f1)
           p3 == p2 + Len(f2)
           p4 == p3 + Len(f3)
           p5 == p4 + Len(f4)
           p6 == p5 + Len(f5)
           p7 == p6 + Len(d)
           p8 == p7 + Len(e1)
<1>1. /\ sent \in Message /\ sent.ip = Address /\ sent.gateway = Address /\ sent.submask = Mask
      /\ sent.dns = <<Resolver>>
  BY ResponseFacts
<1>2. 2 \in 1..4 /\ 3 \in 1..4 /\ 4 \in 1..4
  OBVIOUS
<1>3. f1 \in Seq(Byte) /\ f2 \in Seq(Byte)
  BY <1>1, Tags, FieldBytes DEF Message
<1>4. /\ f3 \in Seq(Byte) /\ f4 \in Seq(Byte) /\ f5 \in Seq(Byte)
  BY <1>2, Tags, AddedText, FieldBytes DEF Address, Mask
<1>5. d \in Seq(Byte) /\ Len(d) = 4 /\ d = Field(58, Resolver)
  BY <1>2, Tags, AddedText, FieldBytes DEF Resolver
<1>6. /\ e1 \in Seq(Byte) /\ e2 \in Seq(Byte) /\ Len(e1) = 2 /\ Len(e2) = 2
  BY OneByteType, OneByte
<1>7. b = f1 \o f2 \o f3 \o f4 \o f5 \o d \o (e1 \o e2)
  BY ResponseWire
<1>8. FieldStarts = <<1, p2, p3, p4, p5, p6, p7, p7 + 2>>
  <2>1. DnsFields(sent) = d
    BY <1>1, OneResolver
  <2> QED BY <1>1, <2>1, Tags DEF FieldStarts
<1> HIDE DEF b, f1, f2, f3, f4, f5, d, e1, e2
<1>9. /\ b \in Seq(Byte) /\ p8 + Len(e2) = Len(b) + 1
      /\ Holds(b, 1, f1)
      /\ p2 \in Nat \ {0} /\ Holds(b, p2, f2)
      /\ p3 \in Nat \ {0} /\ Holds(b, p3, f3)
      /\ p4 \in Nat \ {0} /\ Holds(b, p4, f4)
      /\ p5 \in Nat \ {0} /\ Holds(b, p5, f5)
      /\ p6 \in Nat \ {0} /\ Holds(b, p6, d)
      /\ p7 \in Nat \ {0} /\ Holds(b, p7, e1)
      /\ p8 \in Nat \ {0} /\ Holds(b, p8, e2)
  <2>1. InParts(b, f1, f2, f3, f4, f5, d, e1, e2)
    BY <1>3, <1>4, <1>5, <1>6, <1>7, EightParts
  <2> QED BY <2>1 DEF InParts
<1>10. p8 = p7 + 2 /\ p7 = p6 + 4
  BY <1>5, <1>6
<1>11. p2 = 1 + Len(f1) /\ p3 = p2 + Len(f2) /\ p4 = p3 + Len(f3) /\ p5 = p4 + Len(f4) /\ p6 = p5 + Len(f5)
  OBVIOUS
<1> HIDE DEF p2, p3, p4, p5, p6, p7, p8
<1>12. /\ FieldStarts[1] = 1 /\ FieldStarts[2] = p2 /\ FieldStarts[3] = p3 /\ FieldStarts[4] = p4
       /\ FieldStarts[5] = p5 /\ FieldStarts[6] = p6 /\ FieldStarts[7] = p7 /\ FieldStarts[8] = p8
  BY <1>8, <1>10
<1>13. ASSUME NEW k \in 1..5
       PROVE  LET t == Field(TextTag[TextAt[k]], sent[TextAt[k]])
              IN  Holds(b, FieldStarts[k], t) /\ FieldStarts[k + 1] = FieldStarts[k] + Len(t)
  <2>1. TextTag[TextAt[1]] = 10 /\ sent[TextAt[1]] = sent.username
    BY DEF TextAt, TextTag
  <2>2. TextTag[TextAt[2]] = 18 /\ sent[TextAt[2]] = sent.password
    BY DEF TextAt, TextTag
  <2>3. TextTag[TextAt[3]] = 34 /\ sent[TextAt[3]] = Address
    BY <1>1 DEF TextAt, TextTag
  <2>4. TextTag[TextAt[4]] = 42 /\ sent[TextAt[4]] = Mask
    BY <1>1 DEF TextAt, TextTag
  <2>5. TextTag[TextAt[5]] = 50 /\ sent[TextAt[5]] = Address
    BY <1>1 DEF TextAt, TextTag
  <2>6. CASE k = 1
    <3>1. Field(TextTag[TextAt[k]], sent[TextAt[k]]) = f1
      BY <2>1, <2>6 DEF f1
    <3>2. k + 1 = 2 /\ FieldStarts[k] = 1 /\ FieldStarts[k + 1] = p2
      BY <1>12, <2>6
    <3> QED BY <1>9, <1>11, <3>1, <3>2
  <2>7. CASE k = 2
    <3>1. Field(TextTag[TextAt[k]], sent[TextAt[k]]) = f2
      BY <2>2, <2>7 DEF f2
    <3>2. k + 1 = 3 /\ FieldStarts[k] = p2 /\ FieldStarts[k + 1] = p3
      BY <1>12, <2>7
    <3> QED BY <1>9, <1>11, <3>1, <3>2
  <2>8. CASE k = 3
    <3>1. Field(TextTag[TextAt[k]], sent[TextAt[k]]) = f3
      BY <2>3, <2>8 DEF f3
    <3>2. k + 1 = 4 /\ FieldStarts[k] = p3 /\ FieldStarts[k + 1] = p4
      BY <1>12, <2>8
    <3> QED BY <1>9, <1>11, <3>1, <3>2
  <2>9. CASE k = 4
    <3>1. Field(TextTag[TextAt[k]], sent[TextAt[k]]) = f4
      BY <2>4, <2>9 DEF f4
    <3>2. k + 1 = 5 /\ FieldStarts[k] = p4 /\ FieldStarts[k + 1] = p5
      BY <1>12, <2>9
    <3> QED BY <1>9, <1>11, <3>1, <3>2
  <2>10. CASE k = 5
    <3>1. Field(TextTag[TextAt[k]], sent[TextAt[k]]) = f5
      BY <2>5, <2>10 DEF f5
    <3>2. k + 1 = 6 /\ FieldStarts[k] = p5 /\ FieldStarts[k + 1] = p6
      BY <1>12, <2>10
    <3> QED BY <1>9, <1>11, <3>1, <3>2
  <2> QED BY <2>6, <2>7, <2>8, <2>9, <2>10
<1>14. \A k \in 1..8 : FieldStarts[k] \in Nat \ {0}
  <2> SUFFICES ASSUME NEW k \in 1..8 PROVE FieldStarts[k] \in Nat \ {0}
    OBVIOUS
  <2>1. k = 1 \/ k = 2 \/ k = 3 \/ k = 4 \/ k = 5 \/ k = 6 \/ k = 7 \/ k = 8
    OBVIOUS
  <2>2. 1 \in Nat \ {0}
    OBVIOUS
  <2> DEFINE N == Nat \ {0}
  <2>3. /\ 1 \in N /\ p2 \in N /\ p3 \in N /\ p4 \in N /\ p5 \in N /\ p6 \in N /\ p7 \in N /\ p8 \in N
    BY <1>9, <2>2
  <2> HIDE DEF N
  <2>4. FieldStarts[k] \in N
    BY <1>12, <2>1, <2>3
  <2> QED BY <2>4 DEF N
<1>15. Len(b) \in Nat
  BY <1>9, LenProperties
<1>16. p8 + 2 = Len(b) + 1
  BY <1>6, <1>9
<1> QED BY <1>5, <1>9, <1>10, <1>12, <1>13, <1>14, <1>15, <1>16 DEF b, e1, e2

-----------------------------------------------------------------------------
\* What arrived stands in the body.
LEMMA ArrivedStands ==
  ASSUME Limited, NEW g \in 0..limit, Arrived(g), NEW p \in Nat \ {0}, NEW t \in Seq(Byte),
         Holds(Serialize(sent), p, t), p + Len(t) <= g + 1
  PROVE  Stands(p, t)
<1>1. limit \in Nat /\ Len(t) \in Nat
  BY LimitedFacts, LenProperties
<1>2. ASSUME NEW i \in 1..Len(t) PROVE input[p + i - 1] = t[i]
  <2> DEFINE q == p + i - 1
  <2>1. q \in 1..limit /\ q <= g
    BY <1>1
  <2>2. Serialize(sent)[q] = t[i]
    BY DEF Holds
  <2> HIDE DEF q
  <2>3. input[q] = Serialize(sent)[q]
    BY <2>1 DEF Arrived
  <2> QED BY <2>2, <2>3 DEF q
<1>3. p + Len(t) <= limit + 1
  BY <1>1
<1> QED BY <1>2, <1>3 DEF Stands

\* A tag that arrived is read.
LEMMA ArrivedTag ==
  ASSUME Limited, sent \in Responses, NEW g \in 0..limit, Arrived(g), pos \in 1..g,
         NEW tag \in 0..127, NEW v \in Seq(Byte), Holds(Serialize(sent), pos, <<tag>> \o v)
  PROVE  /\ Tag = tag /\ AfterTag = pos + 1
         /\ Holds(Serialize(sent), pos + 1, v) /\ pos + 1 \in Nat \ {0}
<1>1. Serialize(sent) \in Seq(Byte)
  BY ResponsePlaces
<1>2. <<tag>> \in Seq(Byte) /\ Len(<<tag>>) = 1 /\ pos \in Nat \ {0}
  <2>1. tag \in Byte
    BY DEF Byte
  <2> QED BY <2>1, LimitedFacts
<1>3. Holds(Serialize(sent), pos, <<tag>>) /\ Holds(Serialize(sent), pos + 1, v)
  BY <1>1, <1>2, HeldInTurn
<1>4. Stands(pos, <<tag>>)
  <2>1. pos + Len(<<tag>>) <= g + 1
    BY <1>2, LimitedFacts
  <2> QED BY <1>2, <1>3, <2>1, ArrivedStands
<1>5. pos \in 1..limit /\ input[pos] = tag
  <2>1. \A i \in 1..1 : input[pos + i - 1] = <<tag>>[i]
    BY <1>4 DEF Stands
  <2>2. input[pos + 1 - 1] = tag
    BY <2>1
  <2> QED BY <2>2, LimitedFacts
<1>6. Tag = tag /\ AfterTag = pos + 1
  BY <1>5, TagRead
<1> QED BY <1>2, <1>3, <1>6

\* The zero behind what arrived ends the message.
LEMMA PastIsEnd ==
  ASSUME Limited, NEW g \in 0..limit, Arrived(g), pos \in 1..(limit + 1), pos > g
  PROVE  Tag = 0
<1>1. CASE pos > limit
  BY <1>1 DEF Tag
<1>2. CASE ~(pos > limit)
  <2>1. pos \in 1..limit /\ ~(pos <= g)
    BY <1>2, LimitedFacts
  <2>2. input[pos] = 0
    BY <2>1 DEF Arrived
  <2>3. 0 \in 0..127
    OBVIOUS
  <2> QED BY <2>1, <2>2, <2>3, TagRead
<1> QED BY <1>1, <1>2

\* Of bytes that did not arrive whole the parser ends beyond what did.
LEMMA CutBytes ==
  ASSUME Limited, sent \in Responses, NEW g \in 0..limit, Arrived(g), NEW p \in 1..(g + 1),
         NEW s \in Seq(Byte), Len(s) <= MaxInt, Holds(Serialize(sent), p, Varint(Len(s)) \o s),
         p + DelimitedSize(Len(s)) > g + 1, VarintAt(p).ok
  PROVE  BytesAt(p).next > g /\ BytesAt(p).next \in Nat
<1> DEFINE n == Len(s)
           k == VarintSize(n)
           v == Varint(n)
           b == Serialize(sent)
<1>1. n \in Nat /\ limit \in Nat /\ p \in Nat \ {0} /\ b \in Seq(Byte)
  BY LenProperties, LimitedFacts, ResponsePlaces
<1>2. v \in Seq(Byte) /\ Len(v) = k /\ k \in 1..5 /\ \A i \in 1..k : v[i] \in Byte /\ ((v[i] < 128) <=> (i = k))
  BY <1>1, VarintBytes, ElementOfSeq
<1>3. Holds(b, p, v)
  BY <1>1, <1>2, HeldInTurn
<1>4. p + k + n > g + 1
  BY <1>1, <1>2 DEF DelimitedSize
<1>5. /\ VarintAt(p).value \in Nat /\ VarintAt(p).next \in Nat
      /\ BytesAt(p).next = VarintAt(p).next + VarintAt(p).value
  <2>1. VarintAt(p).value \in Nat /\ VarintAt(p).next \in (p + 1)..(limit + 1)
    BY <1>1, VarintWithin
  <2>2. BytesAt(p).next = LengthAt(p).next + LengthAt(p).value
    BY DEF BytesAt
  <2> QED BY <1>1, <2>1, <2>2, LengthFacts
<1>6. CASE p + k <= g + 1
  <2>1. Stands(p, v)
    BY <1>1, <1>2, <1>3, <1>6, ArrivedStands
  <2>2. VarintAt(p) = [ok |-> TRUE, value |-> n, next |-> p + k]
    BY <1>1, <2>1, VarintRead
  <2> HIDE DEF n, k
  <2>3. BytesAt(p).next = p + k + n
    BY <1>5, <2>2
  <2> QED BY <1>1, <1>2, <1>4, <2>3
<1>7. CASE ~(p + k <= g + 1)
  <2> DEFINE last == CHOOSE q \in p..(p + 9) : EndsAt(p, q)
  <2>1. \E q \in p..(p + 9) : EndsAt(p, q)
    BY DEF VarintAt, Failure
  <2>2. last \in p..(p + 9) /\ EndsAt(p, last) /\ VarintAt(p).next = last + 1
    BY <2>1 DEF VarintAt
  <2> HIDE DEF last, n, k, v, b
  <2>3. last > g
    <3> SUFFICES ASSUME ~(last > g) PROVE FALSE
      BY <2>2
    <3> DEFINE i == last - p + 1
    <3>1. i \in 1..k /\ i # k /\ last = p + i - 1 /\ last \in 1..limit /\ last <= g
      BY <1>1, <1>2, <1>7, <2>2
    <3> HIDE DEF i
    <3>2. b[last] = v[i]
      BY <1>2, <1>3, <3>1 DEF Holds
    <3>3. input[last] = b[last]
      BY <3>1 DEF Arrived, b
    <3>4. v[i] \in 0..255 /\ ~(v[i] < 128) /\ input[last] < 128
      BY <1>2, <2>2, <3>1 DEF EndsAt, Byte
    <3> QED BY <3>2, <3>3, <3>4
  <2> QED BY <1>1, <1>5, <2>2, <2>3
<1> QED BY <1>6, <1>7

\* A field that arrived whole is read, of another the parser ends beyond it.
LEMMA CutField ==
  ASSUME Limited, sent \in Responses, NEW g \in 0..limit, Arrived(g), pos \in 1..g,
         NEW tag \in 0..127, NEW s \in Seq(Byte), s # <<>>, Len(Field(tag, s)) <= MaxInt,
         Holds(Serialize(sent), pos, Field(tag, s))
  PROVE  /\ Tag = tag /\ AfterTag = pos + 1
         /\ \/ /\ LengthAt(pos + 1).ok = TRUE
               /\ BytesAt(pos + 1) = [ok |-> TRUE, value |-> s, next |-> pos + Len(Field(tag, s))]
            \/ BytesAt(pos + 1).ok => BytesAt(pos + 1).next > g
<1> DEFINE n == DelimitedSize(Len(s))
           v == Varint(Len(s)) \o s
           t == Field(tag, s)
<1>1. tag \in Byte /\ limit \in Nat /\ g \in Nat /\ pos \in Nat
  BY LimitedFacts DEF Byte
<1>2. t = Delimited(tag, s) /\ Len(t) = 1 + n /\ n \in Nat
  BY <1>1, DelimitedBytes DEF Field
<1>3. Len(s) <= MaxInt
  <2>1. n = VarintSize(Len(s)) + Len(s) /\ VarintSize(Len(s)) \in 1..5 /\ Len(s) \in Nat
    BY LenProperties, SizeOf DEF DelimitedSize
  <2>2. MaxInt \in Int
    BY SMT DEF MaxInt
  <2> HIDE DEF n
  <2> QED BY <1>2, <2>1, <2>2
<1>4. v \in Seq(Byte)
  <2>1. Varint(Len(s)) \in Seq(Byte)
    BY LenProperties, VarintBytes
  <2> QED BY <2>1, PartsAdd
<1>5. t = <<tag>> \o v
  <2>1. Varint(Len(s)) \in Seq(Byte) /\ <<tag>> \in Seq(Byte)
    BY <1>1, LenProperties, VarintBytes
  <2> QED BY <1>2, <2>1, ConcatAssociative DEF Delimited
<1>6. /\ Tag = tag /\ AfterTag = pos + 1
      /\ Holds(Serialize(sent), pos + 1, v)
  <2>1. Holds(Serialize(sent), pos, <<tag>> \o v)
    BY <1>5
  <2> HIDE DEF v
  <2> QED BY <1>4, <2>1, ArrivedTag
<1>7. CASE pos + 1 + n <= g + 1
  <2>1. Stands(pos, t)
    <3>1. t \in Seq(Byte) /\ pos \in Nat \ {0} /\ pos + Len(t) <= g + 1
      BY <1>1, <1>2, <1>7, FieldBytes
    <3> HIDE DEF t
    <3> QED BY <3>1, ArrivedStands DEF t
  <2>2. Stands(pos, Delimited(tag, s)) /\ pos \in Nat \ {0}
    BY <1>1, <1>2, <2>1
  <2>3. /\ LengthAt(pos + 1).ok = TRUE
        /\ BytesAt(pos + 1) = [ok |-> TRUE, value |-> s, next |-> pos + 1 + n]
    BY <1>3, <2>2, FieldRead
  <2>4. pos + 1 + n = pos + Len(t)
    BY <1>1, <1>2
  <2> QED BY <1>6, <2>3, <2>4
<1>8. CASE ~(pos + 1 + n <= g + 1)
  <2> SUFFICES ASSUME BytesAt(pos + 1).ok PROVE BytesAt(pos + 1).next > g
    BY <1>6
  <2>1. VarintAt(pos + 1).ok
    BY LengthFacts DEF BytesAt
  <2> HIDE DEF n
  <2>2. pos + 1 \in 1..(g + 1) /\ pos + 1 + n > g + 1
    BY <1>1, <1>2, <1>8
  <2> QED BY <1>3, <1>6, <2>1, <2>2, CutBytes DEF n
<1> QED BY <1>7, <1>8

-----------------------------------------------------------------------------
\* The parser of a response, between two steps.
Reading(g) ==
  /\ sent \in Responses /\ result = "parsing" /\ inside = FALSE
  /\ limit = Len(input) /\ g \in 0..limit /\ Arrived(g)

\* What a step of the parser leaves alone.
LEMMA StepKeeps ==
  ASSUME Parse, limit' = limit
  PROVE  /\ \A g : Arrived(g)' <=> Arrived(g)
         /\ FieldStarts' = FieldStarts /\ (sent \in Responses)' = (sent \in Responses)
         /\ sent' = sent /\ Len(rest)' = Len(rest) /\ Len(input)' = Len(input)
<1>1. sent' = sent /\ rest' = rest /\ input' = input
  BY ParseKeeps
<1>2. FieldStarts' = FieldStarts
  BY <1>1 DEF FieldStarts
<1>3. ASSUME NEW g PROVE Arrived(g)' <=> Arrived(g)
  BY <1>1 DEF Arrived
<1> QED BY <1>1, <1>2, <1>3

\* Reading a text of the response.
LEMMA CutText ==
  ASSUME TypeOK, NEW g, Reading(g), Parse, NEW k \in 1..5, pos = FieldStarts[k], pos <= g,
         sent[TextAt[k]] # <<>>
  PROVE  LET f == TextAt[k]
         IN  /\ inside' = FALSE /\ limit' = limit
             /\ result' \in {"parsing", "failed"}
             /\ \E v \in Seq(Byte) : msg' = [msg EXCEPT ![f] = v]
             /\ result' = "parsing" =>
                  \/ pos' > g
                  \/ pos' = FieldStarts[k + 1] /\ msg' = [msg EXCEPT ![f] = sent[f]]
<1> DEFINE f == TextAt[k]
           tag == TextTag[f]
           s == sent[f]
           read == BytesAt(AfterTag)
           whole == LengthAt(AfterTag).ok
           checked == [read EXCEPT !.ok = @ /\ Utf8(read.value)]
<1>1. /\ Limited /\ sent \in Responses /\ g \in 0..limit /\ Arrived(g) /\ pos \in 1..g
      /\ limit \in Nat /\ pos \in Nat \ {0}
  BY TypesLimit DEF Reading
<1>2. /\ f \in DOMAIN TextTag /\ tag \in {10, 18, 34, 42, 50} /\ s \in Seq(Byte) /\ Utf8(s)
      /\ Len(Field(tag, s)) <= MaxInt
  BY <1>1, ResponseTexts
<1>3. Holds(Serialize(sent), pos, Field(tag, s)) /\ FieldStarts[k + 1] = pos + Len(Field(tag, s))
  BY <1>1, ResponsePlaces
<1>4. tag \in 0..127 /\ s # <<>>
  BY <1>2
<1> HIDE DEF f, tag, s
<1>5. /\ Tag = tag /\ AfterTag = pos + 1
      /\ \/ /\ LengthAt(pos + 1).ok = TRUE
            /\ BytesAt(pos + 1) = [ok |-> TRUE, value |-> s, next |-> pos + Len(Field(tag, s))]
         \/ BytesAt(pos + 1).ok => BytesAt(pos + 1).next > g
  BY <1>1, <1>2, <1>3, <1>4, CutField
<1>6. ReadText
  BY <1>2, <1>5, WhichStep DEF Reading
<1>7. PICK h \in DOMAIN TextTag :
        /\ Tag = TextTag[h]
        /\ msg' = [msg EXCEPT ![h] = IF whole THEN read.value ELSE @]
        /\ Advance(checked)
  BY <1>6 DEF ReadText
<1>8. h = f
  BY <1>2, <1>5, <1>7, TagValues DEF tag
<1>9. inside' = FALSE /\ limit' = limit
  BY <1>6, SMT DEF ReadText, Reading
<1>10. checked.ok = (read.ok /\ Utf8(read.value)) /\ checked.next = read.next /\ checked.value = read.value
  BY DEF BytesAt
<1>11. read.value \in Seq(Byte) /\ msg[f] \in Seq(Byte)
  <2>1. AfterTag \in Nat \ {0} /\ msg \in Message
    BY TypesLimit DEF TypeOK
  <2> QED BY <1>1, <1>2, <2>1, BytesWithin, TextType
<1> HIDE DEF checked
<1>12. /\ checked.ok => pos' = read.next /\ result' = result
       /\ ~checked.ok => result' = "failed"
  BY <1>7, <1>10 DEF Advance
<1>13. result = "parsing"
  BY DEF Reading
<1>14. \E v \in Seq(Byte) : msg' = [msg EXCEPT ![f] = v]
  <2> HIDE DEF read, whole
  <2>1. CASE whole
    BY <1>7, <1>8, <1>11, <2>1
  <2>2. CASE ~whole
    <3>1. msg' = [msg EXCEPT ![f] = msg[f]]
      BY <1>7, <1>8, <2>2
    <3> QED BY <1>11, <3>1
  <2> QED BY <2>1, <2>2
<1>15. ASSUME result' = "parsing"
       PROVE  pos' > g \/ (pos' = FieldStarts[k + 1] /\ msg' = [msg EXCEPT ![f] = s])
  <2>1. checked.ok /\ pos' = read.next /\ read.ok
    BY <1>10, <1>12, <1>15
  <2>2. CASE /\ whole = TRUE
             /\ read = [ok |-> TRUE, value |-> s, next |-> pos + Len(Field(tag, s))]
    <3>1. read.value = s /\ read.next = FieldStarts[k + 1]
      BY <1>3, <2>2
    <3> HIDE DEF read, whole
    <3>2. pos' = FieldStarts[k + 1]
      BY <2>1, <3>1
    <3>3. msg' = [msg EXCEPT ![f] = s]
      BY <1>7, <1>8, <2>2, <3>1
    <3> QED BY <3>2, <3>3
  <2>3. CASE read.ok => read.next > g
    BY <2>1, <2>3
  <2> QED BY <1>5, <2>2, <2>3
<1> QED BY <1>9, <1>12, <1>13, <1>14, <1>15 DEF f, s

\* Reading the resolver.
LEMMA CutDns ==
  ASSUME TypeOK, NEW g, Reading(g), Parse, pos = FieldStarts[6], pos <= g
  PROVE  /\ inside' = FALSE /\ limit' = limit
         /\ result' \in {"parsing", "failed"}
         /\ \E v : msg' = [msg EXCEPT !.dns = v]
         /\ result' = "parsing" =>
              pos' > g \/ (pos' = FieldStarts[7] /\ msg' = [msg EXCEPT !.dns = Append(msg.dns, Resolver)])
<1> DEFINE s == Resolver
           read == BytesAt(AfterTag)
           checked == [read EXCEPT !.ok = @ /\ Utf8(read.value)]
<1>1. /\ Limited /\ sent \in Responses /\ g \in 0..limit /\ Arrived(g) /\ pos \in 1..g
      /\ limit \in Nat /\ pos \in Nat \ {0}
  BY TypesLimit DEF Reading
<1>2. s \in Seq(Byte) /\ Utf8(s) /\ s # <<>> /\ Len(Field(58, s)) <= MaxInt /\ Len(Field(58, s)) = 4
  <2>1. 2 \in 1..4 /\ 58 \in Byte
    BY Tags
  <2>2. /\ Text(2) \in Seq(Byte) /\ Utf8(Text(2)) /\ Text(2) # <<>> /\ Len(Field(58, Text(2))) = 2 + 2
        /\ 2 + 2 <= MaxInt
    BY <2>1, AddedText
  <2>3. Len(Field(58, Text(2))) = 4
    BY <2>2
  <2> QED BY <2>2, <2>3 DEF Resolver
<1>3. Holds(Serialize(sent), pos, Field(58, s)) /\ FieldStarts[7] = pos + Len(Field(58, s))
  BY <1>1, <1>2, ResponsePlaces
<1> HIDE DEF s
<1>4. 58 \in 0..127
  OBVIOUS
<1>5. /\ Tag = 58 /\ AfterTag = pos + 1
      /\ \/ BytesAt(pos + 1) = [ok |-> TRUE, value |-> s, next |-> pos + Len(Field(58, s))]
         \/ BytesAt(pos + 1).ok => BytesAt(pos + 1).next > g
  BY <1>1, <1>2, <1>3, <1>4, CutField
<1>6. ReadDns
  BY <1>5, WhichStep DEF Reading
<1>7. msg' = [msg EXCEPT !.dns = Append(@, read.value)] /\ Advance(checked)
  BY <1>6 DEF ReadDns
<1>8. inside' = FALSE /\ limit' = limit
  BY <1>6, SMT DEF ReadDns, Reading
<1>9. checked.ok = (read.ok /\ Utf8(read.value)) /\ checked.next = read.next
  BY DEF BytesAt
<1> HIDE DEF checked
<1>10. /\ checked.ok => pos' = read.next /\ result' = result
       /\ ~checked.ok => result' = "failed"
  BY <1>7, <1>9 DEF Advance
<1>11. result = "parsing"
  BY DEF Reading
<1>12. msg' = [msg EXCEPT !.dns = Append(msg.dns, read.value)]
  BY <1>7
<1>13. ASSUME result' = "parsing"
       PROVE  pos' > g \/ (pos' = FieldStarts[7] /\ msg' = [msg EXCEPT !.dns = Append(msg.dns, s)])
  <2>1. checked.ok /\ pos' = read.next /\ read.ok
    BY <1>9, <1>10, <1>13
  <2>2. CASE read = [ok |-> TRUE, value |-> s, next |-> pos + Len(Field(58, s))]
    <3>1. read.value = s /\ read.next = FieldStarts[7]
      BY <1>3, <2>2
    <3> HIDE DEF read
    <3> QED BY <1>12, <2>1, <3>1
  <2>3. CASE read.ok => read.next > g
    BY <2>1, <2>3
  <2> QED BY <1>5, <2>2, <2>3
<1> QED BY <1>8, <1>10, <1>11, <1>12, <1>13 DEF s

\* Reading the type or the code: one byte, or none of it.
LEMMA CutEnum ==
  ASSUME TypeOK, NEW g, Reading(g), Parse, pos <= g, NEW f \in {"type", "messagecode"},
         NEW tag \in {64, 72}, EnumTag[f] = tag, Holds(Serialize(sent), pos, EnumField(tag, 1)),
         msg[f] = 0
  PROVE  /\ inside' = FALSE /\ limit' = limit
         /\ \/ /\ pos < g
               /\ result' = "parsing" /\ pos' = pos + 2 /\ msg' = [msg EXCEPT ![f] = 1]
            \/ /\ pos = g
               /\ result' \in {"parsing", "failed"} /\ (result' = "parsing" => pos' > g)
               /\ msg' = [msg EXCEPT ![f] = 0]
<1> DEFINE read == VarintAt(AfterTag)
           v == Varint(1)
<1>1. /\ Limited /\ sent \in Responses /\ g \in 0..limit /\ Arrived(g) /\ pos \in 1..g
      /\ limit \in Nat /\ pos \in Nat \ {0}
  BY TypesLimit DEF Reading
<1>2. v \in Seq(Byte) /\ Len(v) = 1 /\ VarintSize(1) = 1 /\ EnumField(tag, 1) = <<tag>> \o v
  <2>1. VarintSize(1) = 1
    BY SizeOf
  <2>2. 1 \in Nat
    OBVIOUS
  <2>3. v \in Seq(Byte) /\ Len(v) = 1
    BY <2>1, <2>2, VarintBytes
  <2>4. EnumField(tag, 1) = <<tag>> \o v
    BY DEF EnumField
  <2> HIDE DEF v
  <2> QED BY <2>1, <2>3, <2>4
<1>3. tag \in 0..127
  OBVIOUS
<1> HIDE DEF v
<1>4. /\ Tag = tag /\ AfterTag = pos + 1
      /\ Holds(Serialize(sent), pos + 1, v) /\ pos + 1 \in Nat \ {0}
  <2>1. Holds(Serialize(sent), pos, <<tag>> \o v)
    BY <1>2
  <2> QED BY <1>1, <1>2, <1>3, <2>1, ArrivedTag
<1>5. ReadEnum
  <2>1. Tag \in {64, 72}
    BY <1>4
  <2> QED BY <2>1, WhichStep DEF Reading
<1>6. PICK h \in DOMAIN EnumTag :
        /\ Tag = EnumTag[h]
        /\ msg' = [msg EXCEPT ![h] = IF read.ok THEN read.value ELSE @]
        /\ Advance(read)
  BY <1>5 DEF ReadEnum
<1>7. h = f
  <2>1. f \in DOMAIN EnumTag
    BY DEF EnumTag
  <2> QED BY <1>4, <1>6, <2>1, TagValues
<1>8. inside' = FALSE /\ limit' = limit
  BY <1>5, SMT DEF ReadEnum, Reading
<1>9. result = "parsing"
  BY DEF Reading
<1>10. CASE pos < g
  <2>1. Stands(pos + 1, v)
    <3>1. pos + 1 + Len(v) <= g + 1
      BY <1>1, <1>2, <1>10
    <3> QED BY <1>1, <1>2, <1>4, <3>1, ArrivedStands
  <2>2. 1 \in Nat /\ 1 <= MaxInt
    BY SMT DEF MaxInt
  <2>3. VarintAt(pos + 1) = [ok |-> TRUE, value |-> 1, next |-> pos + 1 + VarintSize(1)]
    <3> DEFINE p == pos + 1
    <3>1. p \in Nat \ {0} /\ Stands(p, Varint(1))
      BY <1>4, <2>1 DEF v
    <3> HIDE DEF p
    <3>2. VarintAt(p) = [ok |-> TRUE, value |-> 1, next |-> p + VarintSize(1)]
      BY <1>1, <2>2, <3>1, VarintRead
    <3> QED BY <3>2 DEF p
  <2>4. read.ok = TRUE /\ read.value = 1 /\ read.next = pos + 2
    BY <1>1, <1>2, <1>4, <2>3
  <2> HIDE DEF read
  <2>5. pos' = pos + 2 /\ result' = "parsing"
    BY <1>6, <1>9, <2>4 DEF Advance
  <2>6. msg' = [msg EXCEPT ![f] = 1]
    BY <1>6, <1>7, <2>4
  <2> QED BY <1>8, <1>10, <2>5, <2>6
<1>11. CASE ~(pos < g)
  <2>1. pos = g
    BY <1>1, <1>11
  <2>2. read.ok => read.value = 0 /\ read.next = g + 2
    <3>1. CASE pos + 1 <= limit
      <4> DEFINE q == pos + 1
      <4>1. q \in 1..limit /\ ~(q <= g) /\ q + 1 = g + 2
        BY <1>1, <2>1, <3>1
      <4> HIDE DEF q
      <4>2. input[q] = 0 /\ 0 \in 0..127
        BY <1>1, <4>1 DEF Arrived
      <4>3. VarintAt(q) = [ok |-> TRUE, value |-> 0, next |-> q + 1]
        BY <1>1, <4>1, <4>2, ByteRead
      <4> QED BY <1>4, <4>1, <4>3 DEF q
    <3>2. CASE ~(pos + 1 <= limit)
      <4>1. ~VarintAt(pos + 1).ok
        <5>1. VarintAt(pos + 1).ok => VarintAt(pos + 1).next \in (pos + 1 + 1)..(limit + 1)
          BY <1>1, <1>4, VarintWithin
        <5>2. \A q : ~(q \in (pos + 1 + 1)..(limit + 1))
          BY <1>1, <3>2
        <5> QED BY <5>1, <5>2
      <4> QED BY <1>4, <4>1
    <3> QED BY <3>1, <3>2
  <2> HIDE DEF read
  <2>3. msg' = [msg EXCEPT ![f] = 0]
    <3>1. CASE read.ok
      BY <1>6, <1>7, <2>2, <3>1
    <3>2. CASE ~read.ok
      BY <1>6, <1>7, <3>2
    <3> QED BY <3>1, <3>2
  <2>4. result' \in {"parsing", "failed"} /\ (result' = "parsing" => pos' = g + 2)
    BY <1>6, <1>9, <2>2 DEF Advance
  <2>5. g + 2 > g
    BY <1>1
  <2> QED BY <1>8, <2>1, <2>3, <2>4, <2>5
<1> QED BY <1>10, <1>11

-----------------------------------------------------------------------------
\* One field of the message changes, the others stay.
LEMMA OthersStay ==
  ASSUME NEW m \in Message, NEW f, NEW v
  PROVE  \A h \in {"username", "password", "ip", "submask", "gateway", "dns", "type", "messagecode"} :
           [m EXCEPT ![f] = v][h] = IF h = f THEN v ELSE m[h]
BY DEF Message

\* Where the parser goes on, and where it is done.
Stage(g) == Reading(g) /\ ((\E k \in 1..8 : AtField(k)) \/ (pos > g /\ Harmless))

\* The state after a step of the parser.
LEMMA GoesOn ==
  ASSUME NEW g, Reading(g), Parse, inside' = FALSE, limit' = limit,
         result' \in {"parsing", "ok", "failed"}, result' # "parsing" => Harmless',
         result' = "parsing" => (\E k \in 1..8 : AtField(k)') \/ (pos' > g /\ Harmless')
  PROVE  InResponse'
<1>1. /\ sent' \in Responses /\ limit' = Len(input)' /\ g \in 0..limit' /\ Arrived(g)'
      /\ sent \in Responses /\ (sent \in Responses)'
  BY StepKeeps DEF Reading
<1>2. CASE result' = "parsing"
  <2>1. \/ \E k \in 1..8 : AtField(k)'
        \/ pos' > g /\ Harmless'
    BY <1>2
  <2>2. ~inside' /\ limit' = Len(input)'
    BY <1>1
  <2>3. (\E g1 \in 0..limit :
           Arrived(g1) /\ ((\E k \in 1..8 : AtField(k)) \/ (pos > g1 /\ Harmless)))'
    BY <1>1, <2>1
  <2> QED BY <1>1, <1>2, <2>2, <2>3 DEF InResponse
<1>3. CASE result' # "parsing"
  <2>1. result' \in {"ok", "failed"} /\ Harmless'
    BY <1>3
  <2> QED BY <1>1, <2>1 DEF InResponse
<1> QED BY <1>2, <1>3

\* A message whose type was not read is none for the client.
LEMMA RequestIsHarmless ==
  ASSUME msg'.type = 0
  PROVE  Harmless'
BY DEF Harmless, REQUEST

\* Wherever the parser stands, what it has is harmless.
LEMMA FieldIsHarmless ==
  ASSUME NEW k \in 1..8, AtField(k)
  PROVE  Harmless
<1>1. CASE k > 7
  BY <1>1 DEF AtField, Harmless
<1>2. CASE ~(k > 7)
  BY <1>2 DEF AtField, Harmless
<1> QED BY <1>1, <1>2

\* Beyond what arrived, the message ends.
LEMMA PastStep ==
  ASSUME TypeOK, NEW g, Reading(g), Parse, pos > g, Harmless
  PROVE  InResponse'
<1>1. /\ Limited /\ g \in 0..limit /\ Arrived(g) /\ pos \in 1..(limit + 1) /\ inside = FALSE
  BY TypesLimit DEF Reading
<1>2. Tag = 0
  BY <1>1, PastIsEnd
<1>3. EndMessage
  BY <1>1, <1>2, WhichStep
<1>4. /\ result' = "ok" /\ inside' = FALSE /\ limit' = limit
      /\ msg' = msg /\ sent' = sent /\ rest' = rest
  BY <1>1, <1>3 DEF EndMessage
<1>5. Harmless'
  BY <1>4 DEF Harmless
<1> QED BY <1>4, <1>5, GoesOn

\* The texts, one after the other.
LEMMA TextStage ==
  ASSUME TypeOK, NEW g, Reading(g), Parse, NEW k \in 1..5, AtField(k), pos <= g,
         sent[TextAt[k]] # <<>>
  PROVE  InResponse'
<1> DEFINE f == TextAt[k]
<1>1. /\ pos = FieldStarts[k] /\ (k > 3 => msg.ip = sent.ip) /\ (k > 4 => msg.submask = sent.submask)
      /\ msg.dns = <<>> /\ msg.type = 0 /\ msg.messagecode = 0
  BY DEF AtField, REQUEST, AUTHORIZATION
<1>2. /\ inside' = FALSE /\ limit' = limit
      /\ result' \in {"parsing", "failed"}
      /\ \E v \in Seq(Byte) : msg' = [msg EXCEPT ![f] = v]
      /\ result' = "parsing" =>
            \/ pos' > g
            \/ pos' = FieldStarts[k + 1] /\ msg' = [msg EXCEPT ![f] = sent[f]]
  BY <1>1, CutText
<1>3. msg \in Message
  BY DEF TypeOK
<1>4. f = (CASE k = 1 -> "username" [] k = 2 -> "password" [] k = 3 -> "ip" [] k = 4 -> "submask"
           [] k = 5 -> "gateway")
  BY DEF TextAt
<1> HIDE DEF f
<1>5. f \in {"username", "password", "ip", "submask", "gateway"}
  BY <1>4
<1>6. Harmless'
  <2>1. PICK v \in Seq(Byte) : msg' = [msg EXCEPT ![f] = v]
    BY <1>2
  <2>2. msg'["type"] = 0
    BY <1>1, <1>3, <1>5, <2>1, OthersStay
  <2> QED BY <2>2, RequestIsHarmless
<1>7. ASSUME pos' = FieldStarts[k + 1], msg' = [msg EXCEPT ![f] = sent[f]]
      PROVE  AtField(k + 1)'
  <2>1. \A h \in {"username", "password", "ip", "submask", "gateway", "dns", "type", "messagecode"} :
          msg'[h] = IF h = f THEN sent[f] ELSE msg[h]
    <3>1. \A h \in {"username", "password", "ip", "submask", "gateway", "dns", "type", "messagecode"} :
            [msg EXCEPT ![f] = sent[f]][h] = IF h = f THEN sent[f] ELSE msg[h]
      BY <1>3 DEF Message
    <3> QED BY <1>7, <3>1
  <2>2. sent' = sent /\ FieldStarts' = FieldStarts
    BY <1>2, StepKeeps
  <2>3. pos' = FieldStarts'[k + 1]
    BY <1>7, <2>2
  <2>4. msg'["dns"] = <<>> /\ msg'["type"] = 0 /\ msg'["messagecode"] = 0
    BY <1>1, <1>5, <2>1
  <2>5. k + 1 > 3 => msg'["ip"] = sent'["ip"]
    BY <1>1, <1>4, <2>1, <2>2
  <2>6. k + 1 > 4 => msg'["submask"] = sent'["submask"]
    BY <1>1, <1>4, <2>1, <2>2
  <2>7. k + 1 > 5 => msg'["gateway"] = sent'["gateway"]
    BY <1>1, <1>4, <2>1, <2>2
  <2>8. ~(k + 1 > 6) /\ ~(k + 1 > 7)
    OBVIOUS
  <2> QED BY <2>3, <2>4, <2>5, <2>6, <2>7, <2>8 DEF AtField, REQUEST, AUTHORIZATION
<1>8. k + 1 \in 1..8
  OBVIOUS
<1>9. result' = "parsing" => (\E j \in 1..8 : AtField(j)') \/ (pos' > g /\ Harmless')
  BY <1>2, <1>6, <1>7, <1>8
<1> QED BY <1>2, <1>6, <1>9, GoesOn

\* A text that is empty is not there: the next field is.
LEMMA NoName ==
  ASSUME sent \in Responses, NEW k \in 1..5, AtField(k), sent[TextAt[k]] = <<>>
  PROVE  k < 3 /\ AtField(k + 1)
<1>1. k < 3
  BY ResponseTexts
<1>2. FieldStarts[k + 1] = FieldStarts[k]
  <2>1. Len(Field(TextTag[TextAt[k]], sent[TextAt[k]])) = 0
    <3>1. Field(TextTag[TextAt[k]], sent[TextAt[k]]) = <<>>
      BY DEF Field
    <3> QED BY <3>1
  <2>2. FieldStarts[k + 1] = FieldStarts[k] + Len(Field(TextTag[TextAt[k]], sent[TextAt[k]]))
    BY ResponsePlaces
  <2>3. k \in 1..8
    OBVIOUS
  <2>4. FieldStarts[k] \in Nat \ {0}
    BY <2>3, ResponsePlaces
  <2> QED BY <2>1, <2>2, <2>4
<1>3. ~(k > 7) /\ ~(k > 6) /\ ~(k + 1 > 3) /\ ~(k + 1 > 4) /\ ~(k + 1 > 5) /\ ~(k + 1 > 6) /\ ~(k + 1 > 7)
  BY <1>1
<1> QED BY <1>1, <1>2, <1>3 DEF AtField

\* The resolver,
LEMMA DnsStage ==
  ASSUME TypeOK, NEW g, Reading(g), Parse, AtField(6), pos <= g
  PROVE  InResponse'
<1>1. /\ pos = FieldStarts[6] /\ msg.ip = sent.ip /\ msg.submask = sent.submask
      /\ msg.gateway = sent.gateway /\ msg.dns = <<>> /\ msg.type = 0 /\ msg.messagecode = 0
  BY DEF AtField, REQUEST, AUTHORIZATION
<1>2. /\ inside' = FALSE /\ limit' = limit
      /\ result' \in {"parsing", "failed"}
      /\ \E v : msg' = [msg EXCEPT !.dns = v]
      /\ result' = "parsing" =>
           pos' > g \/ (pos' = FieldStarts[7] /\ msg' = [msg EXCEPT !.dns = Append(msg.dns, Resolver)])
  BY <1>1, CutDns
<1>3. msg \in Message
  BY DEF TypeOK
<1>4. PICK v : msg' = [msg EXCEPT !.dns = v]
  BY <1>2
<1>5. /\ msg'.type = 0 /\ msg'.messagecode = 0 /\ msg'.ip = sent.ip /\ msg'.submask = sent.submask
      /\ msg'.gateway = sent.gateway
  BY <1>1, <1>3, <1>4 DEF Message
<1>6. Harmless'
  BY <1>5, RequestIsHarmless
<1>7. ASSUME pos' = FieldStarts[7], msg' = [msg EXCEPT !.dns = Append(msg.dns, Resolver)]
      PROVE  AtField(7)'
  <2>1. sent' = sent /\ FieldStarts' = FieldStarts
    BY <1>2, StepKeeps
  <2>2. msg'.dns = sent.dns
    <3>1. msg'.dns = Append(msg.dns, Resolver)
      BY <1>3, <1>7 DEF Message
    <3>2. sent.dns = <<Resolver>>
      BY ResponseFacts DEF Reading
    <3>3. Append(<<>>, Resolver) = <<Resolver>>
      OBVIOUS
    <3> QED BY <1>1, <3>1, <3>2, <3>3
  <2> QED BY <1>5, <1>7, <2>1, <2>2 DEF AtField, REQUEST, AUTHORIZATION
<1>8. result' = "parsing" => (\E j \in 1..8 : AtField(j)') \/ (pos' > g /\ Harmless')
  BY <1>2, <1>6, <1>7
<1> QED BY <1>2, <1>6, <1>8, GoesOn

\* the type: once it is read, what is left of the response is too short for a frame,
LEMMA TypeStage ==
  ASSUME TypeOK, NEW g, Reading(g), Parse, AtField(7), pos <= g
  PROVE  InResponse'
<1>1. /\ pos = FieldStarts[7] /\ msg.ip = sent.ip /\ msg.submask = sent.submask
      /\ msg.gateway = sent.gateway /\ msg.dns = sent.dns /\ msg.type = 0 /\ msg.messagecode = 0
  BY DEF AtField, REQUEST, AUTHORIZATION
<1>2. msg \in Message /\ sent \in Responses /\ g \in 0..limit /\ limit \in Nat /\ Arrived(g)
      /\ pos \in Nat \ {0}
  BY TypesLimit DEF TypeOK, Reading
<1>3. /\ Holds(Serialize(sent), pos, EnumField(64, 1)) /\ FieldStarts[8] = pos + 2
      /\ pos + 4 = Len(Serialize(sent)) + 1 /\ Len(Serialize(sent)) \in Nat
  <2>1. /\ Holds(Serialize(sent), pos, EnumField(64, 1)) /\ FieldStarts[8] = pos + 2
        /\ FieldStarts[8] + 2 = Len(Serialize(sent)) + 1 /\ Len(Serialize(sent)) \in Nat
    BY <1>1, <1>2, ResponsePlaces
  <2> QED BY <1>2, <2>1
<1>4. EnumTag["type"] = 64 /\ msg["type"] = 0
  BY <1>1, Tags
<1>5. /\ inside' = FALSE /\ limit' = limit
      /\ \/ /\ pos < g
            /\ result' = "parsing" /\ pos' = pos + 2 /\ msg' = [msg EXCEPT !["type"] = 1]
         \/ /\ pos = g
            /\ result' \in {"parsing", "failed"} /\ (result' = "parsing" => pos' > g)
            /\ msg' = [msg EXCEPT !["type"] = 0]
  BY <1>3, <1>4, CutEnum
<1>6. sent' = sent /\ FieldStarts' = FieldStarts /\ Len(rest)' = Len(rest)
  BY <1>5, StepKeeps
<1>7. CASE pos < g
  <2>1. Len(rest) < 5
    <3>1. g > 0 /\ g \in Nat
      BY <1>2, <1>7
    <3>2. Len(rest) = Len(Serialize(sent)) - g
      BY <1>2, <3>1 DEF Arrived
    <3> DEFINE n == Len(Serialize(sent))
    <3> HIDE DEF n
    <3>3. n - g < 5
      BY <1>2, <1>3, <1>7, <3>1 DEF n
    <3> QED BY <3>2, <3>3 DEF n
  <2>2. /\ result' = "parsing" /\ pos' = pos + 2 /\ msg' = [msg EXCEPT !["type"] = 1]
    BY <1>2, <1>5, <1>7
  <2>3. /\ msg'.type = 1 /\ msg'.messagecode = 0 /\ msg'.ip = sent.ip /\ msg'.submask = sent.submask
        /\ msg'.gateway = sent.gateway /\ msg'.dns = sent.dns
    BY <1>1, <1>2, <2>2 DEF Message
  <2>4. AtField(8)'
    BY <1>3, <1>6, <2>1, <2>2, <2>3 DEF AtField, RESPONSE, AUTHORIZATION
  <2>5. 8 \in 1..8 /\ result' \in {"parsing", "ok", "failed"}
    BY <2>2
  <2>6. \E k \in 1..8 : AtField(k)'
    BY <2>4, <2>5
  <2> QED BY <1>5, <2>2, <2>5, <2>6, GoesOn
<1>8. CASE ~(pos < g)
  <2>1. /\ result' \in {"parsing", "failed"} /\ (result' = "parsing" => pos' > g)
        /\ msg' = [msg EXCEPT !["type"] = 0]
    BY <1>5, <1>8
  <2>2. Harmless'
    <3>1. msg'.type = 0
      BY <1>2, <2>1 DEF Message
    <3> QED BY <3>1, RequestIsHarmless
  <2> QED BY <1>5, <2>1, <2>2, GoesOn
<1> QED BY <1>7, <1>8

\* and the code: a response that has it has all its addresses.
LEMMA LastStage ==
  ASSUME TypeOK, NEW g, Reading(g), Parse, AtField(8), pos <= g
  PROVE  InResponse'
<1>1. /\ pos = FieldStarts[8] /\ msg.ip = sent.ip /\ msg.submask = sent.submask
      /\ msg.gateway = sent.gateway /\ msg.dns = sent.dns /\ msg.type = 1 /\ msg.messagecode = 0
      /\ Len(rest) < 5
  BY DEF AtField, RESPONSE, AUTHORIZATION
<1>2. msg \in Message /\ sent \in Responses /\ g \in 0..limit /\ limit \in Nat /\ Arrived(g)
      /\ pos \in Nat \ {0}
  BY TypesLimit DEF TypeOK, Reading
<1>3. /\ Holds(Serialize(sent), pos, EnumField(72, 1))
      /\ pos + 2 = Len(Serialize(sent)) + 1 /\ Len(Serialize(sent)) \in Nat
  BY <1>1, <1>2, ResponsePlaces
<1>4. EnumTag["messagecode"] = 72 /\ msg["messagecode"] = 0
  BY <1>1, Tags
<1>5. /\ inside' = FALSE /\ limit' = limit
      /\ \/ /\ pos < g
            /\ result' = "parsing" /\ pos' = pos + 2 /\ msg' = [msg EXCEPT !["messagecode"] = 1]
         \/ /\ pos = g
            /\ result' \in {"parsing", "failed"} /\ (result' = "parsing" => pos' > g)
            /\ msg' = [msg EXCEPT !["messagecode"] = 0]
  BY <1>3, <1>4, CutEnum
<1>6. sent' = sent /\ Len(rest)' = Len(rest)
  BY <1>5, StepKeeps
<1>7. \/ msg' = [msg EXCEPT !["messagecode"] = 1]
      \/ msg' = [msg EXCEPT !["messagecode"] = 0]
  BY <1>5
<1>8. /\ msg'.type = 1 /\ msg'.messagecode \in {0, 1} /\ msg'.ip = sent.ip /\ msg'.submask = sent.submask
      /\ msg'.gateway = sent.gateway /\ msg'.dns = sent.dns
  BY <1>1, <1>2, <1>7 DEF Message
<1>9. Harmless'
  BY <1>1, <1>6, <1>8 DEF Harmless, RESPONSE, AUTHORIZATION, ESTABLISH
<1>10. result' = "parsing" => pos' > g
  <2>1. g <= Len(Serialize(sent))
    BY <1>2 DEF Arrived
  <2> DEFINE n == Len(Serialize(sent))
  <2> HIDE DEF n
  <2>2. pos + 2 > g
    BY <1>2, <1>3, <2>1 DEF n
  <2> QED BY <1>5, <2>2
<1> QED BY <1>5, <1>9, <1>10, GoesOn

\* The parser's step, wherever it stands.
LEMMA ReadingNext ==
  ASSUME TypeOK, NEW g, Stage(g), Parse
  PROVE  InResponse'
<1>1. Reading(g)
  BY DEF Stage
<1>2. pos \in Nat /\ g \in Int /\ sent \in Responses
  BY <1>1, TypesLimit DEF Reading
<1>3. CASE pos > g
  <2>1. Harmless
    BY FieldIsHarmless DEF Stage
  <2> QED BY <1>1, <1>3, <2>1, PastStep
<1>4. CASE ~(pos > g)
  <2>1. pos <= g
    BY <1>2, <1>4
  <2>2. PICK k \in 1..8 : AtField(k)
    BY <1>4 DEF Stage
  <2>3. ASSUME NEW j \in 3..5, AtField(j) PROVE InResponse'
    <3>1. j \in 1..5 /\ ~(j < 3)
      OBVIOUS
    <3> QED BY <1>1, <1>2, <2>1, <2>3, <3>1, NoName, TextStage
  <2>4. ASSUME AtField(2) PROVE InResponse'
    <3>1. 2 \in 1..5 /\ 2 + 1 = 3 /\ 3 \in 3..5
      OBVIOUS
    <3>2. CASE sent[TextAt[2]] = <<>>
      <4>1. AtField(2 + 1)
        BY <1>2, <2>4, <3>1, <3>2, NoName
      <4> QED BY <2>3, <3>1, <4>1
    <3>3. CASE sent[TextAt[2]] # <<>>
      BY <1>1, <2>1, <2>4, <3>1, <3>3, TextStage
    <3> QED BY <3>2, <3>3
  <2>5. ASSUME AtField(1) PROVE InResponse'
    <3>1. 1 \in 1..5 /\ 1 + 1 = 2
      OBVIOUS
    <3>2. CASE sent[TextAt[1]] = <<>>
      <4>1. AtField(1 + 1)
        BY <1>2, <2>5, <3>1, <3>2, NoName
      <4> QED BY <2>4, <3>1, <4>1
    <3>3. CASE sent[TextAt[1]] # <<>>
      BY <1>1, <2>1, <2>5, <3>1, <3>3, TextStage
    <3> QED BY <3>2, <3>3
  <2>6. k = 1 \/ k = 2 \/ k \in 3..5 \/ k = 6 \/ k = 7 \/ k = 8
    OBVIOUS
  <2>7. CASE k = 6
    BY <1>1, <2>1, <2>2, <2>7, DnsStage
  <2>8. CASE k = 7
    BY <1>1, <2>1, <2>2, <2>8, TypeStage
  <2>9. CASE k = 8
    BY <1>1, <2>1, <2>2, <2>9, LastStage
  <2> QED BY <2>2, <2>3, <2>4, <2>5, <2>6, <2>7, <2>8, <2>9
<1> QED BY <1>3, <1>4

-----------------------------------------------------------------------------
\* A frame is a header of four bytes and the message.
LEMMA FrameParts ==
  ASSUME NEW m \in Message
  PROVE  LET b == Serialize(m)
         IN  /\ b \in Seq(Byte) /\ Len(b) \in Nat /\ Len(Frame(m)) = 4 + Len(b)
             /\ \A i \in 1..Len(b) : Frame(m)[4 + i] = b[i]
<1> DEFINE b == Serialize(m)
           h == Header(ByteSizeLong(m))
<1>1. b \in Seq(Byte) /\ Len(b) \in Nat
  BY SizeCountsBytes, LenProperties
<1>2. h \in Seq(Byte) /\ Len(h) = 4
  <2>1. ByteSizeLong(m) \in Nat
    BY SizeCountsBytes
  <2> QED BY <2>1, HeaderBytes
<1>3. Frame(m) = h \o b
  BY BodyIsSerialize DEF Frame
<1> HIDE DEF b, h
<1>4. Len(h \o b) = 4 + Len(b)
  BY <1>1, <1>2, PartsAdd
<1>5. \A i \in 1..(Len(h) + Len(b)) : (h \o b)[i] = IF i <= Len(h) THEN h[i] ELSE b[i - Len(h)]
  BY <1>1, <1>2, ConcatProperties
<1>6. ASSUME NEW i \in 1..Len(b) PROVE (h \o b)[4 + i] = b[i]
  <2> DEFINE j == 4 + i
  <2>1. j \in 1..(Len(h) + Len(b)) /\ ~(j <= Len(h)) /\ j - Len(h) = i
    BY <1>1, <1>2
  <2> HIDE DEF j
  <2>2. (h \o b)[j] = b[i]
    BY <1>5, <2>1
  <2> QED BY <2>2 DEF j
<1> QED BY <1>1, <1>3, <1>4, <1>6 DEF b

\* The client starts to read: it has a part of the response, or nothing but zeros.
LEMMA ClientNext ==
  ASSUME TypeOK, InResponse, ClientReads
  PROVE  InResponse'
<1> DEFINE b == Serialize(sent)
<1>1. PICK n \in 1..Len(rest), h \in 1..4, size \in Nat, got \in Nat :
        /\ h = IF 4 <= n THEN 4 ELSE n
        /\ got <= n - h /\ got <= size
        /\ input' = [i \in 1..size |-> IF i <= got THEN rest[h + i] ELSE 0]
        /\ rest' = SubSeq(rest, h + got + 1, Len(rest))
  BY ClientTaken
<1>2. /\ sent \in Responses /\ sent \in Message
      /\ \/ rest = Frame(sent)
         \/ Len(rest) < 5
  <2>1. /\ sent \in Responses
        /\ \/ result = "waiting" /\ rest = Frame(sent)
           \/ result = "parsing"
           \/ result \in {"ok", "failed"} /\ Harmless
    BY DEF InResponse
  <2>2. result # "parsing"
    BY DEF ClientReads
  <2>3. CASE result \in {"ok", "failed"} /\ Harmless
    <3>1. ClientTakes(msg) # "freed"
      BY <2>3 DEF ClientReads
    <3>2. msg.type # REQUEST
      BY <3>1 DEF ClientTakes, REQUEST, RESPONSE
    <3>3. Len(rest) < 5
      BY <2>3, <3>2 DEF Harmless
    <3> QED BY <2>1, <3>3, ResponseFacts
  <2> QED BY <2>1, <2>2, <2>3, ResponseFacts
<1>3. /\ sent' = sent /\ pos' = 1 /\ limit' = Len(input') /\ inside' = FALSE
      /\ msg' = NewMessage /\ result' = "parsing"
  BY DEF ClientReads
<1>4. rest \in Seq(Byte) /\ Len(rest) \in Nat /\ b \in Seq(Byte) /\ Len(b) \in Nat
  BY <1>2, LenProperties, SizeCountsBytes DEF TypeOK
<1>5. Len(input') = size /\ \A i \in 1..size : input'[i] = IF i <= got THEN rest[h + i] ELSE 0
  BY <1>1
<1>6. got = 0 \/ (h = 4 /\ got <= Len(rest) - 4)
  BY <1>1, <1>4
<1>7. /\ got <= Len(b)
      /\ \A i \in 1..size : input'[i] = IF i <= got THEN b[i] ELSE 0
      /\ got > 0 => Len(rest') = Len(b) - got
  <2>1. CASE got = 0
    <3>1. \A i \in 1..size : ~(i <= got)
      BY <2>1
    <3> QED BY <1>4, <1>5, <2>1, <3>1
  <2>2. CASE got # 0
    <3>1. h = 4 /\ got <= Len(rest) - 4 /\ got >= 1
      BY <1>6, <2>2
    <3>2. rest = Frame(sent)
      BY <1>2, <1>4, <3>1
    <3>3. Len(rest) = 4 + Len(b) /\ \A i \in 1..Len(b) : rest[4 + i] = b[i]
      BY <1>2, <3>2, FrameParts
    <3>4. got <= Len(b)
      BY <1>4, <3>1, <3>3
    <3>5. ASSUME NEW i \in 1..size PROVE input'[i] = IF i <= got THEN b[i] ELSE 0
      <4>1. CASE i <= got
        <5>1. i \in 1..Len(b)
          BY <1>4, <3>4, <4>1
        <5> QED BY <1>5, <3>1, <3>3, <4>1, <5>1
      <4>2. CASE ~(i <= got)
        BY <1>5, <4>2
      <4> QED BY <4>1, <4>2
    <3>6. Len(rest') = Len(b) - got
      <4> DEFINE a == 4 + got + 1
      <4>1. a \in Int /\ Len(rest) \in Int /\ a >= 1
        BY <1>4
      <4>2. \A i \in a..Len(rest) : rest[i] \in Byte
        <5> SUFFICES ASSUME NEW i \in a..Len(rest) PROVE rest[i] \in Byte
          OBVIOUS
        <5>1. i \in 1..Len(rest)
          BY <1>4, <4>1
        <5> QED BY <1>4, <5>1, ElementOfSeq
      <4>3. rest' = SubSeq(rest, a, Len(rest))
        BY <1>1, <3>1
      <4> HIDE DEF a
      <4>4. Len(rest') = IF a <= Len(rest) THEN Len(rest) - a + 1 ELSE 0
        BY <4>1, <4>2, <4>3, SubSeqProperties
      <4> HIDE DEF b
      <4> QED BY <1>4, <3>3, <3>4, <4>4 DEF a
    <3> QED BY <3>4, <3>5, <3>6
  <2> QED BY <2>1, <2>2
<1>8. limit' = size
  BY <1>3, <1>5
<1>9. Arrived(got)'
  <2>1. Serialize(sent)' = b
    BY <1>3
  <2> HIDE DEF b
  <2> QED BY <1>7, <1>8, <2>1 DEF Arrived
<1>10. AtField(1)'
  <2>1. (sent \in Responses)'
    BY <1>2, <1>3
  <2>2. FieldStarts' = FieldStarts /\ FieldStarts[1] = 1
    BY <1>2, <1>3, ResponsePlaces DEF FieldStarts
  <2>3. msg'.dns = <<>> /\ msg'.type = 0 /\ msg'.messagecode = 0
    BY <1>3 DEF NewMessage
  <2> QED BY <1>3, <2>2, <2>3 DEF AtField, REQUEST, AUTHORIZATION
<1>11. got \in 0..limit' /\ 1 \in 1..8
  BY <1>1, <1>8
<1>12. (\E g \in 0..limit : Arrived(g) /\ ((\E k \in 1..8 : AtField(k)) \/ (pos > g /\ Harmless)))'
  BY <1>9, <1>10, <1>11
<1> QED BY <1>2, <1>3, <1>12 DEF InResponse

\* A response starts in the client's buffer,
LEMMA ResponseInit ==
  ASSUME Init, kind = "response"
  PROVE  InResponse
BY DEF Init, InResponse

\* and each step keeps the parser where it can stand.
LEMMA ResponseNext ==
  ASSUME TypeOK, kind = "response", InResponse, [Next]_vars
  PROVE  InResponse'
<1>1. CASE UNCHANGED vars
  <2>1. /\ sent' = sent /\ rest' = rest /\ input' = input /\ pos' = pos /\ limit' = limit
        /\ inside' = inside /\ msg' = msg /\ result' = result
    BY <1>1 DEF vars
  <2> QED BY <2>1 DEF InResponse, Arrived, AtField, FieldStarts, Harmless
<1>2. CASE ClientReads
  BY <1>2, ClientNext
<1>3. CASE Parse
  <2>1. result = "parsing"
    BY <1>3 DEF Parse, ReadText, ReadDns, ReadEnum, EnterPacket, ReadPacketData, EndPacket,
       EndMessage, Unusual, Parsing
  <2>2. PICK g \in 0..limit :
          /\ sent \in Responses /\ ~inside /\ limit = Len(input)
          /\ Arrived(g) /\ ((\E k \in 1..8 : AtField(k)) \/ (pos > g /\ Harmless))
    BY <2>1 DEF InResponse
  <2>3. inside = FALSE
    BY <2>2 DEF TypeOK
  <2>4. Stage(g)
    BY <2>1, <2>2, <2>3 DEF Stage, Reading
  <2> QED BY <1>3, <2>4, ReadingNext
<1> QED BY <1>1, <1>2, <1>3 DEF Next

-----------------------------------------------------------------------------
(***************************************************************************)
(* The parser of a request always stands where a field begins, and has     *)
(* read just the fields before it.  The parser of a response, cut where it *)
(* may be, does so too until it is beyond what arrived; the type comes     *)
(* after all the addresses, and when it is read too little is left for a   *)
(* header and a body.                                                      *)
(***************************************************************************)
THEOREM ParserInductive == Spec => []IInv
<1>1. Init => IInv
  BY InitTypes, RequestInit, ResponseInit DEF IInv
<1>2. IInv /\ [Next]_vars => IInv'
  <2> SUFFICES ASSUME IInv, [Next]_vars PROVE IInv'
    OBVIOUS
  <2>1. TypeOK'
    BY NextTypes DEF IInv
  <2>2. kind' = kind
    BY ParseKeeps DEF Next, ClientReads, vars
  <2> QED BY <2>1, <2>2, RequestNext, ResponseNext DEF IInv
<1> QED BY <1>1, <1>2, PTL DEF Spec

(***************************************************************************)
(* Whatever the names and the packet, a request that arrived whole is      *)
(* parsed to its end, into the very message the client built, and taken    *)
(* for what it is (RequestUnderstood).                                     *)
(***************************************************************************)
THEOREM RequestRead == Spec => []RequestUnderstood
<1>1. IInv => RequestUnderstood
  <2> SUFFICES ASSUME IInv, kind = "request", result # "parsing" PROVE RequestUnderstood
    BY DEF RequestUnderstood, Parsing
  <2>1. Staged
    BY Stages DEF IInv
  <2>2. result = "ok" /\ msg = sent /\ sent \in Requests
    BY <2>1 DEF Staged, Whole, At, InPacket
  <2>3. sent.type = 0
    <3>1. sent = [WithCode EXCEPT !.packet = sent.packet]
      BY <2>2, RequestFacts
    <3> QED BY <3>1, WithCodeIs
  <2>4. ServerTakes(msg) = (IF has_packet(sent) THEN "data" ELSE "establish")
    BY <2>2, <2>3, RequestFacts DEF ServerTakes, REQUEST, ESTABLISH, DATA
  <2> QED BY <2>2, <2>4 DEF RequestUnderstood
<1> QED BY <1>1, ParserInductive, PTL

(***************************************************************************)
(* Wherever the response is cut, at one place or at several, and whatever  *)
(* length the client takes from what arrived, the client configures the    *)
(* addresses the server sent, or takes the response for a refusal, or      *)
(* gives up (EstablishWhole): though it checks neither that the bytes      *)
(* arrived nor that they were parsed.                                      *)
(***************************************************************************)
THEOREM CutResponseSafe == Spec => []EstablishWhole
<1>1. IInv => EstablishWhole
  <2> SUFFICES ASSUME IInv, kind = "response", result \in {"ok", "failed"}
               PROVE  CASE ClientTakes(msg) = "establish" ->
                             \A f \in {"ip", "submask", "gateway", "dns"} : msg[f] = sent[f]
                        [] OTHER -> ClientTakes(msg) \in {"authorization", "freed"}
    BY DEF EstablishWhole
  <2>1. Harmless
    BY DEF IInv, InResponse
  <2>2. CASE msg.type = REQUEST
    BY <2>2 DEF ClientTakes, REQUEST, RESPONSE
  <2>3. CASE msg.type = RESPONSE /\ msg.messagecode = AUTHORIZATION
    <3>1. ClientTakes(msg) = "authorization"
      BY <2>3 DEF ClientTakes, RESPONSE, AUTHORIZATION, ESTABLISH, BUSY, DATA
    <3> QED BY <3>1
  <2>4. CASE /\ msg.type = RESPONSE /\ msg.messagecode = ESTABLISH
             /\ \A f \in {"ip", "submask", "gateway", "dns"} : msg[f] = sent[f]
    <3>1. ClientTakes(msg) = "establish"
      BY <2>4 DEF ClientTakes, RESPONSE, AUTHORIZATION, ESTABLISH, BUSY, DATA
    <3> QED BY <2>4, <3>1
  <2> QED BY <2>1, <2>2, <2>3, <2>4 DEF Harmless
<1> QED BY <1>1, ParserInductive, PTL
=============================================================================
