---------------------------- MODULE TunnelMessage ----------------------------
(***************************************************************************)
(* The message of TunnelMessage.proto as the generated code has it         *)
(* (TunnelMessage.pb.cc): its fields, the messages the two programs build, *)
(* their size and their bytes.  A byte is a number; the bytes of a text    *)
(* are opaque but for their number and for UTF-8.                          *)
(***************************************************************************)
EXTENDS Naturals, Sequences, FiniteSetsExt, SequencesExt

Byte == 0..255
MaxInt == 2147483647

\* The fields' tags: 8 * number + wire type.
TextTag == [username |-> 10, password |-> 18, ip |-> 34, submask |-> 42, gateway |-> 50]
EnumTag == [type |-> 64, messagecode |-> 72, passwordencrypttype |-> 80, linkencrypttype |-> 88]
DnsTag == 58
PacketTag == 106
PacketDataTag == 98

REQUEST == 0
RESPONSE == 1

AUTHORIZATION == 0
ESTABLISH == 1
BUSY == 2
DATA == 3

NoPacket == [present |-> FALSE, packetdata |-> <<>>]
Packet(data) == [present |-> TRUE, packetdata |-> data]

\* A message as constructed: empty texts, enums 0, no packet.
NewMessage ==
  [username |-> <<>>, password |-> <<>>, ip |-> <<>>, submask |-> <<>>, gateway |-> <<>>,
   dns |-> <<>>, type |-> 0, messagecode |-> 0, passwordencrypttype |-> 0, linkencrypttype |-> 0,
   packet |-> NoPacket]

\* Every message.
Message ==
  [username : Seq(Byte), password : Seq(Byte), ip : Seq(Byte), submask : Seq(Byte),
   gateway : Seq(Byte), dns : Seq(Seq(Byte)), type : Nat, messagecode : Nat,
   passwordencrypttype : Nat, linkencrypttype : Nat,
   packet : [present : BOOLEAN, packetdata : Seq(Byte)]]

\* Mutant: an empty packet is no packet.
has_packet_data(m) == m.packet.packetdata # <<>>

has_packet(m) == m.packet.present

Letter == 97
Text(n) == [i \in 1..n |-> Letter]

\* Texts of characters of one byte or two.
Utf8(s) ==
  \A i \in 1..Len(s) :
    /\ s[i] \in 0..191 \cup 194..223
    /\ s[i] \in 128..191 => i > 1 /\ s[i - 1] \in 194..223
    /\ s[i] \in 194..223 => i < Len(s) /\ s[i + 1] \in 128..191

\* The addresses of the response, of distinct lengths to tell them apart.
Address == Text(3)
Mask == Text(4)
Resolver == Text(2)

EstablishRequest(username, password) ==
  [NewMessage EXCEPT !.type = REQUEST, !.messagecode = ESTABLISH,
                     !.username = username, !.password = password]

DataRequest(data) ==
  [NewMessage EXCEPT !.type = REQUEST, !.messagecode = DATA, !.packet = Packet(data)]

\* The request itself, overwritten: username and password go back.
EstablishResponse(request) ==
  [request EXCEPT !.type = RESPONSE, !.messagecode = ESTABLISH, !.ip = Address,
                  !.gateway = Address, !.submask = Mask, !.dns = Append(@, Resolver)]

-----------------------------------------------------------------------------
\* What the i-th seven bits of a number count.
Weight == <<1, 128, 16384, 2097152, 268435456>>

\* A uint32_t has five of them at most.
VarintSize(n) ==
  CHOOSE k \in 1..5 : (k = 1 \/ n >= Weight[k]) /\ (k = 5 \/ n < Weight[k + 1])

\* Seven bits a byte, the lowest first, the top bit set on all but the last.
Varint(n) ==
  [i \in 1..VarintSize(n) |->
     ((n \div Weight[i]) % 128) + (IF i < VarintSize(n) THEN 128 ELSE 0)]

Delimited(tag, bytes) == <<tag>> \o Varint(Len(bytes)) \o bytes

\* A field with its default is not written.
Field(tag, bytes) == IF bytes = <<>> THEN <<>> ELSE Delimited(tag, bytes)
EnumField(tag, v) == IF v = 0 THEN <<>> ELSE <<tag>> \o Varint(v)

SerializePacket(p) == Field(PacketDataTag, p.packetdata)

TextFields(m) ==
  Field(TextTag.username, m.username) \o Field(TextTag.password, m.password)
    \o Field(TextTag.ip, m.ip) \o Field(TextTag.submask, m.submask)
    \o Field(TextTag.gateway, m.gateway)

DnsFields(m) == FlattenSeq([i \in 1..Len(m.dns) |-> Delimited(DnsTag, m.dns[i])])

EnumFields(m) ==
  EnumField(EnumTag.type, m.type) \o EnumField(EnumTag.messagecode, m.messagecode)
    \o EnumField(EnumTag.passwordencrypttype, m.passwordencrypttype)
    \o EnumField(EnumTag.linkencrypttype, m.linkencrypttype)

PacketField(m) == IF has_packet(m) THEN Delimited(PacketTag, SerializePacket(m.packet)) ELSE <<>>

\* Mutant: the enums are written before the texts.
SerializeEnumsFirst(m) == EnumFields(m) \o TextFields(m) \o DnsFields(m) \o PacketField(m)

Serialize(m) == TextFields(m) \o DnsFields(m) \o EnumFields(m) \o PacketField(m)

DelimitedSize(n) == VarintSize(n) + n
FieldSize(s) == IF s = <<>> THEN 0 ELSE 1 + DelimitedSize(Len(s))
EnumSize(v) == IF v = 0 THEN 0 ELSE 1 + VarintSize(v)

PacketSize(p) == FieldSize(p.packetdata)

TextsSize(m) ==
  FieldSize(m.username) + FieldSize(m.password) + FieldSize(m.ip) + FieldSize(m.submask)
    + FieldSize(m.gateway)

DnsSize(m) ==
  LET upTo[n \in 0..Len(m.dns)] ==
        IF n = 0 THEN 0 ELSE upTo[n - 1] + 1 + DelimitedSize(Len(m.dns[n]))
  IN  upTo[Len(m.dns)]

EnumsSize(m) ==
  EnumSize(m.type) + EnumSize(m.messagecode) + EnumSize(m.passwordencrypttype)
    + EnumSize(m.linkencrypttype)

ByteSizeLong(m) ==
  TextsSize(m) + DnsSize(m) + EnumsSize(m)
    + (IF has_packet(m) THEN 1 + DelimitedSize(PacketSize(m.packet)) ELSE 0)
=============================================================================
