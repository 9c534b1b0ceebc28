--------------------------- MODULE MCPacketStream ---------------------------
EXTENDS PacketStream

\* Payloads that look like the header of another packet, or, in a torn stream, like
\* a length that does not end.
Text(n) == [i \in 1..n |-> (7 * i) % 256]

Message(qos, payload) ==
  [type |-> "PUBLISH", qos |-> qos, dup |-> 0, retained |-> 0, id |-> 258 * qos,
   topic |-> <<116>>, payload |-> payload]

\* Of 2, 8, 9, 10 and 23 bytes, for a buffer of 9: one just fits, one fills the
\* buffer and is dropped, the last needs more than a buffer to be dropped.
MCPackets ==
  {[type |-> "PINGRESP"], Message(1, <<208>>), Message(0, Text(4)), Message(0, Text(5)),
   Message(0, [i \in 1..18 |-> 255])}

=============================================================================
