----------------------------- MODULE MqttPackets -----------------------------
(***************************************************************************)
(* The packets of MQTT 3.1.1 as the SDK writes and reads them: the encoded *)
(* length, the header byte, the serializers of what the client sends, the  *)
(* deserializers of what it receives, and the match of a topic against a   *)
(* topic filter.  Pure operators on sequences of bytes.                    *)
(*                                                                         *)
(* A topic or a payload is a sequence of bytes; its text does not matter,  *)
(* its length and its place in the packet do.                              *)
(***************************************************************************)
EXTENDS Integers, Sequences, FiniteSetsExt, SequencesExt

Byte == 0..255

\* The enumeration starts at CONNECT = 1.
MessageTypes == <<"CONNECT", "CONNACK", "PUBLISH", "PUBACK", "PUBREC", "PUBREL", "PUBCOMP",
                  "SUBSCRIBE", "SUBACK", "UNSUBSCRIBE", "UNSUBACK", "PINGREQ", "PINGRESP",
                  "DISCONNECT">>

-----------------------------------------------------------------------------
(* Plausible mistakes in the operators below, for the mutation runs.        *)

\* The second byte of a length is not announced by the first.
WriteLenUnmarked(n) == <<n % 128>> \o (IF n < 128 THEN <<>> ELSE <<n \div 128>>)

\* The bits of the user name and of the password are swapped.
ConnectFlagsSwapped(c) ==
  (IF c.cleanSession THEN 2 ELSE 0)
  + (IF c.will # <<>> THEN 4 + 8 * c.willQos + 32 * c.willRetained ELSE 0)
  + (IF c.username # <<>> THEN 64 ELSE 0)
  + (IF c.password # <<>> THEN 128 ELSE 0)

\* The length of the password is forgotten.
ConnectLengthOff(c) ==
  10 + Len(c.clientID) + 2
  + (IF c.will # <<>> THEN Len(c.will[1]) + 2 + Len(c.will[2]) + 2 ELSE 0)
  + (IF c.username # <<>> THEN Len(c.username[1]) + 2 ELSE 0)

\* The end of the name is enough for a match.
NameEnds(filter, f, name, n) == n = Len(name) + 1

-----------------------------------------------------------------------------
(* Lengths, numbers and strings.                                            *)

\* Seven bits per byte, least significant first; the top bit says that more
\* follow.
LengthBytes[n \in Nat] ==
  IF n < 128 THEN <<n>> ELSE <<(n % 128) + 128>> \o LengthBytes[n \div 128]

WriteLen(n) == LengthBytes[n]

\* Of each byte of a length.
Multiplier == <<1, 128, 16384, 2097152>>

\* At most 4 bytes are read; len = -1 when the last of them is not the end.
DecodeLen(buf) ==
  LET ends    == {k \in 1..4 : k <= Len(buf) /\ buf[k] < 128}
      part(k) == IF k <= Min(ends) THEN (buf[k] % 128) * Multiplier[k] ELSE 0
  IN IF ends = {} THEN [len |-> -1, used |-> 4]
     ELSE [len |-> part(1) + part(2) + part(3) + part(4), used |-> Min(ends)]

\* The first length that four bytes do not hold.
MaxLength == 268435456

\* The header byte is counted before the size of the length is looked up.
FinalLength(rem) ==
  rem + 1 + (IF rem + 1 < 128 THEN 1 ELSE IF rem + 1 < 16384 THEN 2
             ELSE IF rem + 1 < 2097152 THEN 3 ELSE 4)

ReadU16(buf, at) == 256 * buf[at] + buf[at + 1]
WriteU16(n) == <<n \div 256, n % 256>>
WriteString(s) == WriteU16(Len(s)) \o s

-----------------------------------------------------------------------------
(* The header byte.                                                         *)

\* Any QoS but 1 is written as 0.
Header(type, qos, dup, retained) ==
  (CHOOSE t \in DOMAIN MessageTypes : MessageTypes[t] = type) * 16
  + dup * 8 + (IF qos = 1 THEN 2 ELSE 0) + (IF retained = 1 THEN 1 ELSE 0)

TypeOf(byte) == IF byte \div 16 \in DOMAIN MessageTypes THEN MessageTypes[byte \div 16] ELSE "UNKNOWN"
DupOf(byte) == (byte \div 8) % 2
QosOf(byte) == (byte \div 2) % 4
RetainOf(byte) == byte % 2

-----------------------------------------------------------------------------
(* The serializers.  The empty sequence stands for TX_BUFFER_TOO_SHORT.     *)

Packet(header, rem, body, room) ==
  IF FinalLength(rem) > room THEN <<>> ELSE <<header>> \o WriteLen(rem) \o body

\* Optional fields are sequences: empty, or with the field's parts.
ConnectLength(c) ==
  10 + Len(c.clientID) + 2
  + (IF c.will # <<>> THEN Len(c.will[1]) + 2 + Len(c.will[2]) + 2 ELSE 0)
  + (IF c.username # <<>> THEN Len(c.username[1]) + 2 ELSE 0)
  + (IF c.password # <<>> THEN Len(c.password[1]) + 2 ELSE 0)

ConnectFlags(c) ==
  (IF c.cleanSession THEN 2 ELSE 0)
  + (IF c.will # <<>> THEN 4 + 8 * c.willQos + 32 * c.willRetained ELSE 0)
  + (IF c.password # <<>> THEN 64 ELSE 0)
  + (IF c.username # <<>> THEN 128 ELSE 0)

\* "MQTT", version 4, flags, keep-alive, then the strings.
SerializeConnect(c, room) ==
  Packet(Header("CONNECT", 0, 0, 0), ConnectLength(c),
         WriteString(<<77, 81, 84, 84>>) \o <<4, ConnectFlags(c)>> \o WriteU16(c.keepAlive)
           \o FlattenSeq([i \in DOMAIN (<<c.clientID>> \o c.will \o c.username \o c.password) |->
                            WriteString((<<c.clientID>> \o c.will \o c.username \o c.password)[i])]),
         room)

SerializePublish(p, room) ==
  Packet(Header("PUBLISH", p.qos, p.dup, p.retained),
         Len(p.topic) + Len(p.payload) + 2 + (IF p.qos > 0 THEN 2 ELSE 0),
         WriteString(p.topic) \o (IF p.qos > 0 THEN WriteU16(p.id) ELSE <<>>) \o p.payload,
         room)

\* Only a PUBREL is sent with QoS 1.  A buffer of 4 bytes is enough.
SerializeAck(type, dup, id, room) ==
  IF room < 4 THEN <<>>
  ELSE <<Header(type, IF type = "PUBREL" THEN 1 ELSE 0, dup, 0)>> \o WriteLen(2) \o WriteU16(id)

SerializeZero(type, room) ==
  IF room < 4 THEN <<>> ELSE <<Header(type, 0, 0, 0)>> \o WriteLen(0)

SumOf(lengths) ==
  LET sum[n \in 0..Len(lengths)] == IF n = 0 THEN 0 ELSE sum[n - 1] + lengths[n]
  IN sum[Len(lengths)]

\* Each filter is followed by the QoS asked.
SerializeSubscribe(id, topics, qoss, room) ==
  Packet(Header("SUBSCRIBE", 1, 0, 0),
         2 + SumOf([i \in DOMAIN topics |-> Len(topics[i]) + 2 + 1]),
         WriteU16(id) \o FlattenSeq([i \in DOMAIN topics |-> WriteString(topics[i]) \o <<qoss[i]>>]),
         room)

SerializeUnsubscribe(id, topics, room) ==
  Packet(Header("UNSUBSCRIBE", 1, 0, 0),
         2 + SumOf([i \in DOMAIN topics |-> Len(topics[i]) + 2]),
         WriteU16(id) \o FlattenSeq([i \in DOMAIN topics |-> WriteString(topics[i])]),
         room)

\* The packets the client sends.  Identifiers and the lengths of strings are
\* uint16_t; what the device holds in memory does not wrap the 32 bits of rem_len.
Word == {n \in Nat : n <= 65535}
String == {s \in Seq(Byte) : Len(s) \in Word}

ConnectPackets ==
  [type : {"CONNECT"}, clientID : String,
   will : {w \in Seq(String) : Len(w) \in {0, 2}}, willQos : 0..1, willRetained : 0..1,
   username : {u \in Seq(String) : Len(u) <= 1}, password : {u \in Seq(String) : Len(u) <= 1},
   cleanSession : BOOLEAN, keepAlive : Word]

PublishPackets ==
  [type : {"PUBLISH"}, qos : 0..1, dup : 0..1, retained : 0..1, id : Word,
   topic : String, payload : Seq(Byte)]

SubscribePackets ==
  {r \in [type : {"SUBSCRIBE"}, id : Word, topics : Seq(String), qoss : Seq(0..1)] :
     Len(r.qoss) = Len(r.topics)}

UnsubscribePackets == [type : {"UNSUBSCRIBE"}, id : Word, topics : Seq(String)]

ClientPackets ==
  ConnectPackets \cup PublishPackets \cup SubscribePackets \cup UnsubscribePackets
  \cup [type : {"PUBACK"}, id : Word] \cup [type : {"PINGREQ", "DISCONNECT"}]

\* Any packet the client sends.
Serialize(r, room) ==
  CASE r.type = "CONNECT"     -> SerializeConnect(r, room)
    [] r.type = "PUBLISH"     -> SerializePublish(r, room)
    [] r.type = "SUBSCRIBE"   -> SerializeSubscribe(r.id, r.topics, r.qoss, room)
    [] r.type = "UNSUBSCRIBE" -> SerializeUnsubscribe(r.id, r.topics, room)
    [] r.type = "PUBACK"      -> SerializeAck("PUBACK", 0, r.id, room)
    [] OTHER                  -> SerializeZero(r.type, room)

-----------------------------------------------------------------------------
(* The deserializers, on a buffer that starts with a whole packet.          *)

Failure == [type |-> "FAILURE"]

\* Where the variable part of a packet starts and where it ends.
Start(buf) == 2 + DecodeLen(Tail(buf)).used
End(buf) == Start(buf) + DecodeLen(Tail(buf)).len

\* The topic must end within the packet.  An identifier that does not is read
\* from what the buffer held before (-1).
DeserializePublish(buf) ==
  LET from == Start(buf)
      n    == ReadU16(buf, from)
      rest == from + 2 + n + (IF QosOf(buf[1]) # 0 THEN 2 ELSE 0)
  IN IF \/ TypeOf(buf[1]) # "PUBLISH"
        \/ DecodeLen(Tail(buf)).len < 2
        \/ from + 2 + n > End(buf)
     THEN Failure
     ELSE [type     |-> "PUBLISH",
           dup      |-> DupOf(buf[1]),
           qos      |-> QosOf(buf[1]),
           retained |-> RetainOf(buf[1]),
           id       |-> IF QosOf(buf[1]) = 0 THEN 0
                        ELSE IF rest <= End(buf) THEN ReadU16(buf, from + 2 + n) ELSE -1,
           topic    |-> SubSeq(buf, from + 2, from + 1 + n),
           payload  |-> SubSeq(buf, rest, End(buf) - 1)]

DeserializeAck(buf) ==
  IF DecodeLen(Tail(buf)).len < 2 THEN Failure
  ELSE [type |-> TypeOf(buf[1]), dup |-> DupOf(buf[1]), id |-> ReadU16(buf, Start(buf))]

DeserializeUnsuback(buf) ==
  IF DeserializeAck(buf).type # "UNSUBACK" THEN Failure ELSE DeserializeAck(buf)

\* One return code more than the topics asked is let through.
DeserializeSuback(buf, maxExpectedQoSCount) ==
  LET granted == SubSeq(buf, Start(buf) + 2, End(buf) - 1)
  IN IF \/ TypeOf(buf[1]) # "SUBACK"
        \/ DecodeLen(Tail(buf)).len < 2
        \/ Len(granted) > maxExpectedQoSCount + 1
     THEN Failure
     ELSE [type |-> "SUBACK", id |-> ReadU16(buf, Start(buf)), granted |-> granted]

\* The session present flag is read from the highest bit of its byte.
DeserializeConnack(buf) ==
  IF TypeOf(buf[1]) # "CONNACK" \/ DecodeLen(Tail(buf)).len # 2 THEN Failure
  ELSE [type           |-> "CONNACK",
        sessionPresent |-> buf[Start(buf)] \div 128,
        rc             |-> IF buf[Start(buf) + 1] <= 5 THEN buf[Start(buf) + 1] ELSE "UNKNOWN_ERROR"]

-----------------------------------------------------------------------------
(* The match of a topic name against a topic filter, both sequences of      *)
(* bytes, as the loop of _aws_iot_mqtt_internal_is_topic_matched does it:   *)
(* f and n are the next bytes of each.                                      *)

Slash == 47
Plus == 43
Hash == 35

\* The last byte before the next "/" from n on, n included.
LevelEnd(name, n) == Max({k \in n..Len(name) : \A j \in (n + 1)..k : name[j] # Slash})

\* The loop ended: both must be used up.
MatchEnds(filter, f, name, n) == n = Len(name) + 1 /\ f = Len(filter) + 1

\* The loop goes no further: one of the two is used up, or they differ.
MatchStops(filter, f, name, n) ==
  \/ f > Len(filter) \/ n > Len(name)
  \/ name[n] = Slash /\ filter[f] # Slash
  \/ filter[f] \notin {Plus, Hash, name[n]}

\* The last byte of the name that the next byte of the filter takes.
MatchTakes(filter, f, name, n) ==
  CASE filter[f] = Plus -> LevelEnd(name, n)
    [] filter[f] = Hash -> Len(name)
    [] OTHER            -> n

\* Where the loop that is at a place in the filter and in the name ends.
IsTopicMatched(filter, name) ==
  LET end[at \in (1..(Len(filter) + 1)) \X (1..(Len(name) + 1))] ==
        IF MatchStops(filter, at[1], name, at[2]) THEN at
        ELSE end[<<at[1] + 1, MatchTakes(filter, at[1], name, at[2]) + 1>>]
  IN MatchEnds(filter, end[<<1, 1>>][1], name, end[<<1, 1>>][2])

-----------------------------------------------------------------------------
(* The topics the client is used with, in levels without a "/" in them.     *)

\* Any byte of a level but the separator and the wildcards.
Character == Byte \ {0, Slash, Plus, Hash}
Levels == Seq(Character) \ {<<>>}

TopicNames == Seq(Levels) \ {<<>>}

\* "#" is the last level if it is one.
TopicFilters ==
  {levels \in Seq(Levels \cup {<<Plus>>, <<Hash>>}) \ {<<>>} :
     \A i \in 1..(Len(levels) - 1) : levels[i] # <<Hash>>}

=============================================================================
