------------------------------ MODULE MCTlsPort ------------------------------
EXTENDS TlsPort

\* Bytes that look like headers, lengths and continuations.
Text(n) == [i \in 1..n |-> (37 * i) % 256]

Optional(S) == {<<>>} \cup {<<s>> : s \in S}

\* Fields that are absent, empty or long enough for a length of two bytes.
Connects ==
  [type : {"CONNECT"}, clientID : {Text(1), Text(120)}, will : {<<>>, <<Text(3), Text(0)>>, <<Text(2), Text(130)>>},
   willQos : {1}, willRetained : {0, 1}, username : Optional({Text(0), Text(4)}),
   password : Optional({Text(130)}), cleanSession : BOOLEAN, keepAlive : {300}]

\* The variable part takes 127 and 128 bytes with the longer topic, and more.
Publishes ==
  [type : {"PUBLISH"}, qos : {0, 1}, dup : {0, 1}, retained : {0, 1}, id : {1, 256, 65535},
   topic : {Text(1), Text(5)}, payload : {Text(0), Text(120), Text(121), Text(300)}]

Letters == {<<97>>, <<98>>, <<97, 98>>}
MCNames == UNION {[1..n -> Letters] : n \in 1..3}
MCFilters ==
  UNION {[1..n -> Letters \cup {<<Plus>>}] : n \in 1..2}
  \cup {f \o <<<<Hash>>>> : f \in {<<>>} \cup [1..1 -> Letters \cup {<<Plus>>}]}
  \cup {<<<<97>>, <<Plus>>, <<98>>>>, <<<<Plus>>, <<Plus>>, <<97, 98>>>>}

Subscribes ==
  [type : {"SUBSCRIBE"}, id : {256}, topics : {<<Joined(f)>> : f \in MCFilters}, qoss : {<<1>>}]
  \cup {[type |-> "SUBSCRIBE", id |-> 1, topics |-> <<Text(3), Text(130)>>, qoss |-> <<0, 1>>]}

MCRequests ==
  Connects \cup Publishes \cup Subscribes
  \cup {[type |-> "UNSUBSCRIBE", id |-> 65535, topics |-> <<Text(3), Text(1)>>],
        [type |-> "PUBACK", id |-> 255], [type |-> "PINGREQ"], [type |-> "DISCONNECT"]}

=============================================================================
