---------------------------- MODULE MessageParser ----------------------------
(***************************************************************************)
(* MergePartialFromCodedStream of TunnelMessage.pb.cc on the bodies the    *)
(* two read callbacks give it.  The server's body is whole; the client     *)
(* reads the response as it arrives, a length and as many bytes, with      *)
(* zeros for those that are not there; and the body of the server's DATA   *)
(* message is memory nobody wrote.  Neither callback looks at the result:  *)
(* they dispatch on the fields as left.                                    *)
(*                                                                         *)
(* One action for each group of cases of the parser's two switches; a      *)
(* message and the packet nested in it are read with the same position and *)
(* a limit each.                                                           *)
(***************************************************************************)
EXTENDS TunnelMessage

CONSTANTS Names,       \* what options may hold as username or password
          PacketSizes, \* sizes of the packets of the client's interface
          Alphabet,    \* the bytes unwritten memory may hold
          StrayLength, \* bound: its length
          MaxBody      \* bound: the client's body, beyond which it is zeros

ASSUME ParserAssumption ==
  /\ Names \subseteq Seq(Byte)
  /\ PacketSizes \subseteq 0..1500
  /\ Alphabet \subseteq Byte
  /\ StrayLength \in Nat
  /\ MaxBody \in Nat /\ MaxBody <= 16777216

VARIABLES kind,    \* whose body: "request", "response" or "stray"
          sent,    \* the message it was made from
          rest,    \* what the client has yet to read
          input,   \* the body
          pos,     \* the next byte to read
          limit,   \* the last byte of the message or packet being read
          inside,  \* the packet is being read
          msg,     \* the message built so far
          result   \* "waiting" for the client's callback, "parsing", "ok" or "failed"

vars == <<kind, sent, rest, input, pos, limit, inside, msg, result>>

Requests ==
  {EstablishRequest(u, p) : u \in Names, p \in Names} \cup {DataRequest(Text(n)) : n \in PacketSizes}

Responses == {EstablishResponse(EstablishRequest(u, p)) : u \in Names, p \in Names}

\* Names are UTF-8 (UTF8String), and a request's size is an int (ByteSize).
ASSUME NamesAssumption ==
  /\ \A s \in Names : Utf8(s)
  /\ \A m \in Requests : ByteSizeLong(m) <= MaxInt

\* A buffer of ByteSize bytes that SerializeToArray fills.
Body(m) ==
  LET bytes == Serialize(m)
  IN  [i \in 1..ByteSizeLong(m) |-> IF i <= Len(bytes) THEN bytes[i] ELSE 0]

\* A uint32_t in memory: its four bytes, the lowest first.
Header(n) == <<n % 256, (n \div 256) % 256, (n \div 65536) % 256, (n \div 16777216) % 256>>

Frame(m) == Header(ByteSizeLong(m)) \o Body(m)

Init ==
  /\ \/ /\ kind = "request" /\ sent \in Requests
        /\ input = Body(sent) /\ rest = <<>>
     \/ /\ kind = "response" /\ sent \in Responses
        /\ input = <<>> /\ rest = Frame(sent)
     \/ /\ kind = "stray" /\ sent = NewMessage
        /\ \E n \in 0..StrayLength : input \in [1..n -> Alphabet]
        /\ rest = <<>>
  /\ pos = 1 /\ limit = Len(input)
  /\ inside = FALSE
  /\ msg = NewMessage
  /\ result = IF kind = "response" THEN "waiting" ELSE "parsing"

-----------------------------------------------------------------------------
\* The library's primitives, at a place p; none reads past the limit.
Failure == [ok |-> FALSE, value |-> 0, next |-> pos]

\* The byte a varint ends with: the first without its top bit.
EndsAt(p, q) == q <= limit /\ input[q] < 128 /\ \A r \in p..(q - 1) : input[r] >= 128

\* The i-th seven bits of the number that ends at last, and the number: the low
\* 32 bits of those ten bytes may hold.
Bits(p, last, i) == IF p + i > last THEN 0 ELSE input[p + i] % 128
Number(p, last) ==
  Bits(p, last, 0) + 128 * (Bits(p, last, 1) + 128 * (Bits(p, last, 2)
    + 128 * (Bits(p, last, 3) + 128 * (Bits(p, last, 4) % 16))))

VarintAt(p) ==
  IF \E q \in p..(p + 9) : EndsAt(p, q)
  THEN LET last == CHOOSE q \in p..(p + 9) : EndsAt(p, q)
       IN  [ok |-> TRUE, value |-> Number(p, last), next |-> last + 1]
  ELSE Failure

\* A length is an int: above INT_MAX it is negative, and refused.
LengthAt(p) == [VarintAt(p) EXCEPT !.ok = @ /\ VarintAt(p).value <= MaxInt]

\* A length and so many bytes.  If there are fewer, those are kept: it fails.
BytesAt(p) ==
  LET l == LengthAt(p)
  IN  [ok |-> l.ok /\ l.value <= limit + 1 - l.next,
       value |-> IF l.ok THEN SubSeq(input, l.next, Min({limit, l.next + l.value - 1})) ELSE <<>>,
       next |-> l.next + l.value]

\* The tag at pos, 0 at the limit and for a varint without an end.
Tag == IF pos > limit THEN 0 ELSE VarintAt(pos).value
AfterTag == VarintAt(pos).next

WireType(tag) == tag % 8
EndsMessage == Tag = 0 \/ WireType(Tag) = 4

Known(tag) ==
  tag \in (IF inside THEN {PacketDataTag}
           ELSE Range(TextTag) \cup Range(EnumTag) \cup {DnsTag, PacketTag})

\* SkipField: where it may end up, 0 for a failure.  Whether a field number 0 is
\* refused depends on the library's version; of a group anything is allowed.
SkipEnds ==
  LET p == AfterTag
      fixed(n) == IF p + n <= limit + 1 THEN p + n ELSE 0
      skipped ==
        CASE WireType(Tag) = 0 -> {IF VarintAt(p).ok THEN VarintAt(p).next ELSE 0}
          [] WireType(Tag) = 1 -> {fixed(8)}
          [] WireType(Tag) = 2 -> {IF BytesAt(p).ok THEN BytesAt(p).next ELSE 0}
          [] WireType(Tag) = 3 -> {0} \cup p..(limit + 1)
          [] WireType(Tag) = 5 -> {fixed(4)}
          [] OTHER -> {0}
  IN  skipped \cup (IF Tag < 8 THEN {0} ELSE {})

-----------------------------------------------------------------------------
\* What the callbacks do with the message.
ServerTakes(m) ==
  IF m.type # REQUEST THEN "ignored"
  ELSE CASE m.messagecode = ESTABLISH -> "establish"
         [] m.messagecode = DATA -> "data"
         [] OTHER -> "ignored"

ClientTakes(m) ==
  IF m.type # RESPONSE THEN "freed"
  ELSE CASE m.messagecode = ESTABLISH -> "establish"
         [] m.messagecode = AUTHORIZATION -> "authorization"
         [] m.messagecode = BUSY -> "busy"
         [] m.messagecode = DATA -> "data"
         [] OTHER -> "error"

\* The length in the first four bytes, or in those of them that arrived.
LengthIn(header) ==
  LET byte(i) == IF i <= Len(header) THEN header[i] ELSE 0
  IN  IF byte(4) # 0 THEN MaxBody
      ELSE Min({MaxBody, byte(1) + 256 * byte(2) + 65536 * byte(3)})

\* The client's read callback, when n bytes of the rest have arrived: a length,
\* and a zeroed buffer of that size filled with what there is.  A message that
\* is no response was the last.
ClientReads ==
  /\ result = "waiting" \/ (result \in {"ok", "failed"} /\ ClientTakes(msg) # "freed")
  /\ \E n \in 1..Len(rest) :
       LET header == SubSeq(rest, 1, Min({4, n}))
           size == LengthIn(header)
           got == Min({size, n - Len(header)})
       IN  /\ input' = [i \in 1..size |-> IF i <= got THEN rest[Len(header) + i] ELSE 0]
           /\ rest' = SubSeq(rest, Len(header) + got + 1, Len(rest))
  /\ pos' = 1 /\ limit' = Len(input')
  /\ inside' = FALSE
  /\ msg' = NewMessage
  /\ result' = "parsing"
  /\ UNCHANGED <<kind, sent>>

Parsing == result = "parsing"

\* DO_: go on behind what was read, or fail.
Advance(read) ==
  IF read.ok THEN pos' = read.next /\ UNCHANGED result
  ELSE result' = "failed" /\ UNCHANGED pos

ReadText ==
  /\ Parsing /\ ~inside
  /\ \E f \in DOMAIN TextTag :
       /\ Tag = TextTag[f]
       /\ LET read == BytesAt(AfterTag)
          IN  /\ msg' = [msg EXCEPT ![f] = IF LengthAt(AfterTag).ok THEN read.value ELSE @]
              /\ Advance([read EXCEPT !.ok = @ /\ Utf8(read.value)])
  /\ UNCHANGED <<kind, sent, rest, input, limit, inside>>

ReadDns ==
  /\ Parsing /\ ~inside /\ Tag = DnsTag
  /\ LET read == BytesAt(AfterTag)
     IN  /\ msg' = [msg EXCEPT !.dns = Append(@, read.value)]
         /\ Advance([read EXCEPT !.ok = @ /\ Utf8(read.value)])
  /\ UNCHANGED <<kind, sent, rest, input, limit, inside>>

\* Any number is taken for an enum's value.
ReadEnum ==
  /\ Parsing /\ ~inside
  /\ \E f \in DOMAIN EnumTag :
       /\ Tag = EnumTag[f]
       /\ LET read == VarintAt(AfterTag)
          IN  /\ msg' = [msg EXCEPT ![f] = IF read.ok THEN read.value ELSE @]
              /\ Advance(read)
  /\ UNCHANGED <<kind, sent, rest, input, limit, inside>>

\* Mutant: the packet's limit replaces the message's.
EnterPacketBeyond ==
  /\ Parsing /\ ~inside /\ Tag = PacketTag
  /\ LET l == VarintAt(AfterTag)
     IN  /\ msg' = [msg EXCEPT !.packet.present = TRUE]
         /\ inside' = l.ok
         /\ limit' = IF l.ok THEN l.next + l.value - 1 ELSE limit
         /\ Advance(l)
  /\ UNCHANGED <<kind, sent, rest, input>>

\* mutable_packet, then the packet's limit, never beyond the message's.
EnterPacket ==
  /\ Parsing /\ ~inside /\ Tag = PacketTag
  /\ LET l == VarintAt(AfterTag)
     IN  /\ msg' = [msg EXCEPT !.packet.present = TRUE]
         /\ inside' = l.ok
         /\ limit' = IF l.ok THEN Min({limit, l.next + l.value - 1}) ELSE limit
         /\ Advance(l)
  /\ UNCHANGED <<kind, sent, rest, input>>

ReadPacketData ==
  /\ Parsing /\ inside /\ Tag = PacketDataTag
  /\ LET read == BytesAt(AfterTag)
     IN  /\ msg' = [msg EXCEPT !.packet.packetdata = IF LengthAt(AfterTag).ok THEN read.value ELSE @]
         /\ Advance(read)
  /\ UNCHANGED <<kind, sent, rest, input, limit, inside>>

\* A packet has to end at its limit, the message need not.
EndPacket ==
  /\ Parsing /\ inside /\ EndsMessage
  /\ IF pos > limit
     THEN inside' = FALSE /\ limit' = Len(input) /\ UNCHANGED result
     ELSE result' = "failed" /\ UNCHANGED <<inside, limit>>
  /\ UNCHANGED <<kind, sent, rest, input, pos, msg>>

EndMessage ==
  /\ Parsing /\ ~inside /\ EndsMessage
  /\ result' = "ok"
  /\ UNCHANGED <<kind, sent, rest, input, pos, limit, inside, msg>>

\* Mutant: an unknown field is left where it is.
UnusualStays ==
  /\ Parsing /\ ~EndsMessage /\ ~Known(Tag)
  /\ UNCHANGED vars

Unusual ==
  /\ Parsing /\ ~EndsMessage /\ ~Known(Tag)
  /\ \E p \in SkipEnds : Advance([ok |-> p # 0, next |-> p])
  /\ UNCHANGED <<kind, sent, rest, input, limit, inside, msg>>

Parse ==
  \/ ReadText \/ ReadDns \/ ReadEnum \/ EnterPacket \/ ReadPacketData
  \/ EndPacket \/ EndMessage \/ Unusual

Next == Parse \/ ClientReads

Spec == Init /\ [][Next]_vars

\* The loop is one thread's, inside its callback.
FairSpec == Spec /\ WF_vars(Parse)

-----------------------------------------------------------------------------
TypeOK ==
  /\ kind \in {"request", "response", "stray"}
  /\ input \in Seq(Byte) /\ rest \in Seq(Byte)
  /\ limit \in 0..Len(input) /\ pos \in 1..(limit + 1)
  /\ inside \in BOOLEAN
  /\ msg \in Message
  /\ result \in {"waiting", "parsing", "ok", "failed"}

(***************************************************************************)
(* A request that arrives whole is understood: the server parses the very  *)
(* message the client built, empty packets and fields left out included,   *)
(* and takes it for what it is.  This rests on ByteSize, which the buffer  *)
(* is allocated from, counting every byte SerializeToArray writes.         *)
(***************************************************************************)
RequestUnderstood ==
  kind = "request" /\ ~Parsing =>
    /\ result = "ok" /\ msg = sent
    /\ ServerTakes(msg) = (IF has_packet(sent) THEN "data" ELSE "establish")

(***************************************************************************)
(* The client does not wait for a whole frame and ignores the result of    *)
(* the parse, and yet a response cut anywhere, at one place or at several, *)
(* is safe: if the client ever takes what it read for an establishment,    *)
(* the addresses it configures are the server's, whole; otherwise it takes *)
(* it for a refused authorization or gives the connection up.              *)
(***************************************************************************)
EstablishWhole ==
  kind = "response" /\ result \in {"ok", "failed"} =>
    CASE ClientTakes(msg) = "establish" ->
           \A f \in {"ip", "submask", "gateway", "dns"} : msg[f] = sent[f]
      [] OTHER -> ClientTakes(msg) \in {"authorization", "freed"}

(***************************************************************************)
(* Whatever a body holds, the parser comes to an end.                      *)
(***************************************************************************)
Stops == []<>(result # "parsing")

-----------------------------------------------------------------------------
\* What makes RequestUnderstood inductive: the parser of a request stands where
\* a field begins, and has read just those before it.
InRequest ==
  LET afterUsername == 1 + Len(Field(TextTag.username, sent.username))
      afterPassword == afterUsername + Len(Field(TextTag.password, sent.password))
      afterCode == afterPassword + 2
      withUsername == [NewMessage EXCEPT !.username = sent.username]
      withPassword == [withUsername EXCEPT !.password = sent.password]
      withCode == [withPassword EXCEPT !.messagecode = sent.messagecode]
      at(p, m) == result = "parsing" /\ ~inside /\ pos = p /\ msg = m
      inPacket(p, m) == result = "parsing" /\ inside /\ pos = p /\ msg = m
  IN  /\ sent \in Requests /\ input = Serialize(sent) /\ rest = <<>> /\ limit = Len(input)
      /\ \/ at(1, NewMessage)
         \/ at(afterUsername, withUsername)
         \/ at(afterPassword, withPassword)
         \/ at(afterCode, withCode)
         \/ /\ has_packet(sent)
            /\ inPacket(afterCode + 1 + VarintSize(PacketSize(sent.packet)),
                        [withCode EXCEPT !.packet = Packet(<<>>)])
         \/ inPacket(Len(input) + 1, sent)
         \/ at(Len(input) + 1, sent)
         \/ result = "ok" /\ msg = sent

\* What makes EstablishWhole inductive.  g bytes of the response arrived with its
\* header, and zeros stand for the others; what did not arrive is the rest.
Arrived(g) ==
  LET bytes == Serialize(sent)
  IN  /\ g <= Len(bytes)
      /\ \A i \in 1..limit : input[i] = (IF i <= g THEN bytes[i] ELSE 0)
      /\ g > 0 => Len(rest) = Len(bytes) - g

\* Where the fields of a response begin.
FieldStarts ==
  LET password == 1 + Len(Field(TextTag.username, sent.username))
      ip == password + Len(Field(TextTag.password, sent.password))
      submask == ip + Len(Field(TextTag.ip, sent.ip))
      gateway == submask + Len(Field(TextTag.submask, sent.submask))
      dns == gateway + Len(Field(TextTag.gateway, sent.gateway))
      type == dns + Len(DnsFields(sent))
  IN  <<1, password, ip, submask, gateway, dns, type, type + 2>>

\* The parser stands at the k-th field and has read those before it.
AtField(k) ==
  /\ pos = FieldStarts[k]
  /\ k > 3 => msg.ip = sent.ip
  /\ k > 4 => msg.submask = sent.submask
  /\ k > 5 => msg.gateway = sent.gateway
  /\ msg.dns = (IF k > 6 THEN sent.dns ELSE <<>>)
  /\ msg.type = (IF k > 7 THEN RESPONSE ELSE REQUEST)
  /\ k > 7 => Len(rest) < 5
  /\ msg.messagecode = AUTHORIZATION

\* The client gives up, or what is left is no frame; and an establishment has all
\* the addresses.
Harmless ==
  \/ msg.type = REQUEST
  \/ /\ msg.type = RESPONSE /\ Len(rest) < 5
     /\ \/ msg.messagecode = AUTHORIZATION
        \/ /\ msg.messagecode = ESTABLISH
           /\ \A f \in {"ip", "submask", "gateway", "dns"} : msg[f] = sent[f]

InResponse ==
  /\ sent \in Responses
  /\ \/ result = "waiting" /\ rest = Frame(sent)
     \/ /\ result = "parsing" /\ ~inside /\ limit = Len(input)
        /\ \E g \in 0..limit : Arrived(g) /\ ((\E k \in 1..8 : AtField(k)) \/ (pos > g /\ Harmless))
     \/ result \in {"ok", "failed"} /\ Harmless

IInv == TypeOK /\ (kind = "request" => InRequest) /\ (kind = "response" => InResponse)
=============================================================================
