----------------------------- MODULE PacketStream -----------------------------
(***************************************************************************)
(* How the MQTT client cuts the TLS stream into packets:                   *)
(* _aws_iot_mqtt_internal_read_packet over iot_tls_read.  A call reads the *)
(* header byte, the length byte by byte and the rest; when the network has *)
(* nothing it returns, and readBufIndex lets the next call go on where it  *)
(* stopped.  A packet that does not fit the buffer is read and dropped.    *)
(*                                                                         *)
(* Each call of the network is one step.  How many bytes it gets before    *)
(* its timer expires is a choice: none, some, or all it asked for.         *)
(***************************************************************************)
EXTENDS MqttPackets

CONSTANTS
  Packets,     \* what the broker sends
  BufSize,     \* readBufSize
  MaxSent,     \* packets per session (bound of the model)
  MaxTimeouts  \* reads cut short per session (bound of the model)

ASSUME StreamAssumption ==
  /\ BufSize \in Nat /\ BufSize >= 6
  /\ MaxSent \in Nat
  /\ MaxTimeouts \in Nat

VARIABLES
  wire,         \* bytes of the session not read yet
  readBuf,      \* the bytes below readBufIndex; those above are written before
                \* they are read
  stage,        \* what read_packet reads next
  len,          \* bytes of the length so far
  rem_len,      \* the length, so far
  total,        \* total_bytes_read of a packet that is dropped
  toRead,       \* bytes_to_be_read
  sent,         \* packets of this session
  delivered,    \* packets read before the stream was torn, as the client understands them
  torn,         \* why the stream and the packets have come apart
  timeouts

locals == <<len, rem_len, total, toRead>>
streamVars == <<wire, readBuf, stage, locals, sent, delivered, torn, timeouts>>

Reasons == {"timeout", "overread", "interrupted", "connect"}

\* How the broker writes a packet; a broker is not limited by a buffer.
Room == MaxLength - 1

OnWire(p) ==
  CASE p.type = "PUBLISH"  -> SerializePublish(p, Room)
    [] p.type = "PINGRESP" -> SerializeZero("PINGRESP", Room)
    [] p.type = "SUBACK"   -> <<Header("SUBACK", 0, 0, 0)>> \o WriteLen(2 + Len(p.granted))
                              \o WriteU16(p.id) \o p.granted
    [] OTHER               -> SerializeAck(p.type, 0, p.id, Room)

\* The device subscribes to one topic at a time, with QoS 0 or 1.
BrokerPackets ==
  {p \in PublishPackets : (p.qos = 0 => p.id = 0) /\ OnWire(p) # <<>>}
  \cup [type : {"SUBACK"}, id : Word, granted : {g \in Seq(Byte) : Len(g) = 1}]
  \cup [type : {"PUBACK", "UNSUBACK"}, dup : {0}, id : Word]
  \cup [type : {"PINGRESP"}]

ASSUME PacketsAssumption == Packets \subseteq BrokerPackets

\* What is made of the packet in the buffer: a PUBLISH goes to the handlers, an
\* acknowledgement to the call that waits for it.
Understood(buf) ==
  LET type == TypeOf(buf[1]) IN
  CASE type = "PUBLISH"  -> DeserializePublish(buf)
    [] type = "SUBACK"   -> DeserializeSuback(buf, 1)
    [] type = "UNSUBACK" -> DeserializeUnsuback(buf)
    [] type = "PUBACK"   -> DeserializeAck(buf)
    [] type = "CONNACK"  -> DeserializeConnack(buf)
    [] OTHER             -> [type |-> type]

-----------------------------------------------------------------------------
(* Plausible mistakes in the operators below, for the mutation runs.        *)

\* The index is not set back after a packet.
FlushForgotten == UNCHANGED readBuf

\* The header is not counted.
TooLongRem(offset, rem) == rem >= BufSize

\* A read that is not completed starts over.
NothingFlushed == readBuf' = <<>> /\ UNCHANGED <<wire, torn, timeouts>>

-----------------------------------------------------------------------------
(* iot_tls_read, and the wrapper that resumes.                              *)

readBufIndex == Len(readBuf)

\* The next n bytes of the session leave the network.
Take(n) == n <= Len(wire) /\ wire' = SubSeq(wire, n + 1, Len(wire))

Tear(reason) == torn' = IF torn = "none" THEN reason ELSE torn

\* What is still missing of size bytes at offset.
Missing(offset, size) == offset + size - readBufIndex

ReadAll(offset, size) ==
  IF Missing(offset, size) > 0
  THEN Take(Missing(offset, size)) /\ readBuf' = readBuf \o SubSeq(wire, 1, Missing(offset, size))
  ELSE UNCHANGED <<wire, readBuf>>

\* The timer expired with nothing read.
Nothing == UNCHANGED <<wire, readBuf, torn, timeouts>>

\* The timer expired with some bytes read: their number is not returned, so the
\* index stays and they are lost.
CutShort(n) ==
  /\ timeouts < MaxTimeouts
  /\ timeouts' = timeouts + 1
  /\ \E k \in 1..(n - 1) : Take(k)
  /\ Tear("timeout")

\* read_packet returns; its locals are gone.
Returns ==
  /\ stage' = "header"
  /\ len' = 0 /\ rem_len' = 0 /\ total' = 0 /\ toRead' = 0

ReadFails(offset, size) ==
  /\ Missing(offset, size) > 0
  /\ Nothing \/ (CutShort(Missing(offset, size)) /\ UNCHANGED readBuf)
  /\ Returns
  /\ UNCHANGED <<sent, delivered>>

-----------------------------------------------------------------------------
(* read_packet.                                                             *)

\* aws_iot_mqtt_internal_flushBuffers
Flush == readBuf' = <<>>

ReadHeader ==
  /\ stage = "header"
  /\ ReadAll(0, 1)
  /\ stage' = "length"
  /\ len' = 1
  /\ UNCHANGED <<rem_len, total, toRead, sent, delivered, torn, timeouts>>

HeaderFails == stage = "header" /\ ReadFails(0, 1)

TooLong(offset, rem) == rem + offset >= BufSize

\* Where the last byte of the length leads.
AfterLength(rem) == IF TooLong(len + 1, rem) THEN "drop" ELSE IF rem > 0 THEN "rest" ELSE "done"

ReadLength ==
  /\ stage = "length"
  /\ len <= 4
  /\ ReadAll(len, 1)
  /\ LET byte == readBuf'[len + 1]
         rem  == rem_len + (byte % 128) * Multiplier[len]
     IN /\ rem_len' = rem
        /\ IF byte >= 128 THEN len' = len + 1 /\ UNCHANGED <<stage, toRead>>
           ELSE /\ stage' = AfterLength(rem)
                /\ toRead' = IF AfterLength(rem) = "drop" THEN BufSize ELSE 0
                /\ UNCHANGED len
  /\ UNCHANGED <<total, sent, delivered, torn, timeouts>>

LengthFails == stage = "length" /\ len <= 4 /\ ReadFails(len, 1)

\* A fifth byte of length: an error, and the bytes stay in the buffer.
BadLength ==
  /\ stage = "length"
  /\ len > 4
  /\ Returns
  /\ UNCHANGED <<wire, readBuf, sent, delivered, torn, timeouts>>

ReadRest ==
  /\ stage = "rest"
  /\ ReadAll(len + 1, rem_len)
  /\ stage' = "done"
  /\ UNCHANGED <<locals, sent, delivered, torn, timeouts>>

RestFails == stage = "rest" /\ ReadFails(len + 1, rem_len)

\* The packet is complete: cycle_read looks at its type.
Deliver ==
  /\ stage = "done"
  /\ Flush
  /\ delivered' = IF torn = "none"
                  THEN Append(delivered, Understood(SubSeq(readBuf, 1, len + 1 + rem_len)))
                  ELSE delivered
  /\ Returns
  /\ UNCHANGED <<wire, sent, torn, timeouts>>

\* The first bytes of a chunk replace those in the buffer.
Overwritten(n) == [i \in DOMAIN readBuf |-> IF i <= n THEN wire[i] ELSE readBuf[i]]

\* A packet that does not fit: chunks of a whole buffer, the last one shorter.
\* The first chunk is a whole buffer even when less is left; then the count
\* wraps around and the loop ends without a flush.
Drop ==
  /\ stage = "drop"
  /\ Take(toRead)
  /\ LET read == total + toRead IN
       \/ /\ read < rem_len
          /\ total' = read
          /\ toRead' = IF rem_len - read >= BufSize THEN BufSize ELSE rem_len - read
          /\ readBuf' = Overwritten(toRead)
          /\ UNCHANGED <<stage, len, rem_len, torn>>
       \/ /\ read = rem_len
          /\ Flush
          /\ Returns
          /\ UNCHANGED torn
       \/ /\ read > rem_len
          /\ Tear("overread")
          /\ readBuf' = Overwritten(toRead)
          /\ Returns
  /\ UNCHANGED <<sent, delivered, timeouts>>

\* The network has not all of a chunk in time.  The chunks read are forgotten,
\* and they have replaced the header in the buffer.
DropFails ==
  /\ stage = "drop"
  /\ \/ /\ UNCHANGED <<wire, readBuf, timeouts>>
        /\ IF total > 0 THEN Tear("interrupted") ELSE UNCHANGED torn
     \/ /\ CutShort(toRead)
        /\ readBuf' = Overwritten(Len(wire) - Len(wire'))
  /\ Returns
  /\ UNCHANGED <<sent, delivered>>

-----------------------------------------------------------------------------
(* The broker and the session.                                              *)

BrokerSends ==
  /\ Len(sent) < MaxSent
  /\ \E p \in Packets :
       /\ sent' = Append(sent, p)
       /\ wire' = wire \o OnWire(p)
  /\ UNCHANGED <<readBuf, stage, locals, delivered, torn, timeouts>>

\* A new session: the buffer is flushed before the connection is made.
Reconnect ==
  /\ stage = "header"
  /\ Flush
  /\ wire' = <<>>
  /\ sent' = <<>>
  /\ delivered' = <<>>
  /\ torn' = "none"
  /\ timeouts' = 0
  /\ UNCHANGED <<stage, locals>>

\* The buffer is flushed as well when the call is then refused because the
\* client is connected.
ConnectRefused ==
  /\ stage = "header"
  /\ Flush
  /\ IF readBufIndex > 0 THEN Tear("connect") ELSE UNCHANGED torn
  /\ UNCHANGED <<wire, stage, locals, sent, delivered, timeouts>>

StreamInit ==
  /\ wire = <<>>
  /\ readBuf = <<>>
  /\ stage = "header"
  /\ len = 0 /\ rem_len = 0 /\ total = 0 /\ toRead = 0
  /\ sent = <<>>
  /\ delivered = <<>>
  /\ torn = "none"
  /\ timeouts = 0

ReadStep == ReadHeader \/ ReadLength \/ BadLength \/ ReadRest \/ Deliver \/ Drop
ReadFailure == HeaderFails \/ LengthFails \/ RestFails \/ DropFails

StreamNext == ReadStep \/ ReadFailure \/ BrokerSends \/ Reconnect \/ ConnectRefused

StreamSpec == StreamInit /\ [][StreamNext]_streamVars

\* The client reads again and again, and what was sent arrives: a read that can
\* be completed is not cut short for ever.
StreamFairSpec ==
  /\ StreamSpec
  /\ SF_streamVars(ReadHeader) /\ SF_streamVars(ReadLength) /\ SF_streamVars(ReadRest)
  /\ SF_streamVars(Drop) /\ WF_streamVars(Deliver)

-----------------------------------------------------------------------------
(* Properties.                                                             *)

\* Whatever was read, garbage of a torn stream included, nothing is written
\* beyond the buffer, and between two calls at most a header and a length are
\* kept in it.
WithinBuffer ==
  /\ \A i \in DOMAIN readBuf : readBuf[i] \in Byte
  /\ stage \in {"header", "length", "rest", "drop", "done"}
  /\ stage = "header" => readBufIndex \in 0..5
  /\ stage = "length" => len \in 1..5 /\ readBufIndex \in 1..5
  /\ stage = "rest" => readBufIndex + Missing(len + 1, rem_len) <= BufSize
  /\ stage = "drop" => toRead \in 1..BufSize
  /\ stage = "done" => len + 1 + rem_len <= BufSize
  /\ torn \in Reasons \cup {"none"}
  /\ timeouts \in 0..MaxTimeouts

\* The packets of a session that the client can receive.
Fits(p) == Len(OnWire(p)) < BufSize

Fitting ==
  LET fitting[n \in 0..Len(sent)] ==
        IF n = 0 THEN <<>>
        ELSE IF Fits(sent[n]) THEN Append(fitting[n - 1], sent[n]) ELSE fitting[n - 1]
  IN fitting[Len(sent)]

\* However the bytes arrive, and wherever calls return and go on: as long as the
\* stream is not torn, the client has understood the packets that fit its
\* buffer, each once, in order, unaltered, and none is missing once the stream
\* is read.
PacketsInOrder ==
  torn = "none" =>
    /\ IsPrefix(delivered, Fitting)
    /\ wire = <<>> /\ stage = "header" /\ readBufIndex = 0 => delivered = Fitting

\* No packet waits for ever behind a header or a message to drop.
PacketsArrive == (delivered # Fitting) ~> (delivered = Fitting \/ torn # "none")

=============================================================================
