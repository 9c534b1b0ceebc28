------------------------------- MODULE TlsPort -------------------------------
(***************************************************************************)
(* The port's TLS layer under the MQTT client, on the way out: the steps   *)
(* of iot_tls_connect, each of which may fail, the clean-up its callers    *)
(* do, and a packet's way from its serializer through                      *)
(* aws_iot_mqtt_internal_send_packet and the loops of iot_tls_write.       *)
(*                                                                         *)
(* The timer of a write may expire between any two steps, also between the *)
(* tests of it in the two nested loops and while mbedtls_ssl_write runs.   *)
(* The socket is a blocking one: that call may not return.                 *)
(***************************************************************************)
EXTENDS MqttPackets

CONSTANTS
  Requests,     \* the packets the client sends
  TxSize,       \* writeBufSize
  MaxFragment,  \* bytes one mbedtls_ssl_write takes at most
  MaxCuts,      \* packets sent in part before the session ends (bound of the model)
  Filters,      \* topic filters and
  Names         \* topic names to match them with, as sequences of levels

ASSUME PortAssumption ==
  /\ TxSize \in Nat /\ TxSize < MaxLength
  /\ MaxFragment \in Nat \ {0}
  /\ MaxCuts \in Nat

ASSUME RequestsAssumption == Requests \subseteq ClientPackets

ASSUME TopicsAssumption == Filters \subseteq TopicFilters /\ Names \subseteq TopicNames

VARIABLES
  tls,      \* how far the connection is set up
  held,     \* contexts that own memory or a socket
  lost,     \* contexts initialised again while they did
  call,     \* where iot_tls_write is
  request,  \* the packet being sent
  writeBuf,
  written,  \* written_so_far; below zero: the count has wrapped around
  ret,      \* of the last mbedtls_ssl_write
  expired,  \* the write's timer
  passed,   \* bytes of the packet that TLS has taken
  tlsRc,    \* what iot_tls_write returned
  cuts      \* packets of this session that were not sent whole

session == <<tls, held, lost>>
writing == <<call, request, writeBuf, written, ret, expired, passed, tlsRc, cuts>>
portVars == <<session, writing>>

Contexts == {"drbg", "entropy", "cacert", "clicert", "pkey", "server_fd", "conf", "ssl"}

\* MBEDTLS_ERR_SSL_WANT_WRITE
WantWrite == -26752

NoRequest == [type |-> "none"]

-----------------------------------------------------------------------------
(* Plausible mistakes in the operators below, for the mutation runs.        *)

\* The private key is forgotten.
DestroyForgetsKey == held' = held \ {"drbg", "entropy", "cacert", "clicert", "server_fd", "conf", "ssl"}

\* What was written is not counted.
IncrementForgotten == call' = "for" /\ UNCHANGED written

\* The ticks are compared without regard to their wrapping around: the time never
\* comes.
TimerNeverExpires == FALSE /\ UNCHANGED <<tls, held, lost, call, request, writeBuf, written, ret, expired,
                                          passed, tlsRc, cuts>>

-----------------------------------------------------------------------------
(* iot_tls_connect.  A failing step may leave its context half set up.      *)

\* The caller finds the layer closed.  All contexts are initialised.
tls_connect ==
  /\ tls = "closed"
  /\ tls' = "seed"
  /\ lost' = lost \cup held
  /\ held' = {}
  /\ UNCHANGED writing

Step(from, gets, to) ==
  /\ tls = from
  /\ \/ tls' = to /\ held' = held \cup gets
     \/ tls' = "failed" /\ held' \in {held, held \cup gets}
  /\ UNCHANGED <<lost, writing>>

Seed == Step("seed", {"drbg", "entropy"}, "credentials")

\* Root certificate, client certificate and private key, in this order.
Credentials ==
  \/ Step("credentials", {"cacert"}, "clicert")
  \/ Step("clicert", {"clicert"}, "pkey")
  \/ Step("pkey", {"pkey"}, "socket")

Socket == Step("socket", {"server_fd"}, "configure")

Configure == Step("configure", {"conf", "ssl"}, "handshake")

\* A refused handshake, a certificate that does not verify.
Handshake == Step("handshake", {}, "open")

\* iot_tls_destroy, after a close_notify whose result does not matter.
Destroy == held' = held \ Contexts

\* aws_iot_mqtt_connect cleans up when the connection fails; a disconnect, a
\* forced one too, when it ends.
Close ==
  /\ tls \in {"failed", "open"}
  /\ call = "none"
  /\ tls' = "closed"
  /\ Destroy
  /\ cuts' = 0
  /\ request' = NoRequest /\ writeBuf' = <<>> /\ passed' = 0 /\ tlsRc' = "none"
  /\ UNCHANGED <<lost, call, written, ret, expired>>

-----------------------------------------------------------------------------
(* A packet is serialized and sent.                                         *)

Serialized == [r \in Requests |-> Serialize(r, TxSize)]

\* A packet that fills the buffer is not sent either.
SendPacket ==
  /\ tls = "open"
  /\ call = "none"
  /\ cuts < MaxCuts
  /\ \E r \in Requests :
       LET packet == Serialized[r] IN
       /\ packet # <<>>
       /\ Len(packet) < TxSize
       /\ request' = r
       /\ writeBuf' = packet
  /\ call' = "for"
  /\ written' = 0 /\ ret' = 0 /\ passed' = 0
  /\ expired' = FALSE
  /\ tlsRc' = "none"
  /\ UNCHANGED <<session, cuts>>

TimerExpires ==
  /\ call # "none"
  /\ ~expired
  /\ expired' = TRUE
  /\ UNCHANGED <<session, call, request, writeBuf, written, ret, passed, tlsRc, cuts>>

\* iot_tls_write returns rc.  The caller's loop ends; its lock's result replaces
\* rc, so the client goes on with the session.
WriteReturns(rc) ==
  /\ cuts' = cuts + (IF passed' < Len(writeBuf) THEN 1 ELSE 0)
  /\ call' = "none"
  /\ tlsRc' = rc
  /\ written' = 0 /\ ret' = 0 /\ expired' = FALSE

\* The test of the outer loop.
WriteFor ==
  /\ call = "for"
  /\ UNCHANGED <<session, request, writeBuf, passed>>
  /\ \/ /\ written \in 0..(Len(writeBuf) - 1)
        /\ ~expired
        /\ call' = "while"
        /\ UNCHANGED <<written, ret, expired, tlsRc, cuts>>
     \/ /\ written \notin 0..(Len(writeBuf) - 1)
        /\ WriteReturns(IF written = Len(writeBuf) THEN "SUCCESS"
                        ELSE IF expired THEN "WRITE_TIMEOUT" ELSE "SUCCESS")
     \/ /\ written \in 0..(Len(writeBuf) - 1)
        /\ expired
        /\ WriteReturns("WRITE_TIMEOUT")

\* The outer loop adds what the last write returned, also when the timer expired
\* before there was one.
Increment ==
  /\ call' = "for"
  /\ written' = written + ret'

\* The test of the inner loop.
WriteWhile ==
  /\ call = "while"
  /\ UNCHANGED <<session, request, writeBuf, ret, expired, passed, tlsRc, cuts>>
  /\ \/ ~expired /\ call' = "write" /\ UNCHANGED written
     \/ expired /\ Increment

\* mbedtls_ssl_write returns, in time or not: it has taken some of the bytes, has
\* taken none and the inner loop goes on, or has failed.
SslWrite ==
  /\ call = "write"
  /\ UNCHANGED <<session, request, writeBuf>>
  /\ \/ /\ ret' = Min({MaxFragment, Len(writeBuf) - written})
        /\ passed' = passed + ret'
        /\ Increment
        /\ UNCHANGED <<expired, tlsRc, cuts>>
     \/ /\ call' = "while"
        /\ ret' = WantWrite
        /\ UNCHANGED <<written, expired, passed, tlsRc, cuts>>
     \/ /\ UNCHANGED passed
        /\ WriteReturns("WRITE_ERROR")

-----------------------------------------------------------------------------

PortInit ==
  /\ tls = "closed"
  /\ held = {} /\ lost = {}
  /\ call = "none"
  /\ request = NoRequest /\ writeBuf = <<>>
  /\ written = 0 /\ ret = 0 /\ passed = 0
  /\ expired = FALSE
  /\ tlsRc = "none"
  /\ cuts = 0

PortNext ==
  \/ tls_connect \/ Seed \/ Credentials \/ Socket \/ Configure \/ Handshake \/ Close
  \/ SendPacket \/ TimerExpires \/ WriteFor \/ WriteWhile \/ SslWrite

PortSpec == PortInit /\ [][PortNext]_portVars

\* The task goes on and time passes.  Nothing is asked of mbedtls_ssl_write: its
\* send callback has no timeout, and a stalled network may hold it for ever.
PortFairSpec ==
  /\ PortSpec
  /\ WF_portVars(WriteFor) /\ WF_portVars(WriteWhile)
  /\ WF_portVars(TimerExpires)

-----------------------------------------------------------------------------
(* Properties.                                                             *)

PortTypeOK ==
  /\ tls \in {"closed", "seed", "credentials", "clicert", "pkey", "socket", "configure", "handshake",
              "open", "failed"}
  /\ held \subseteq Contexts /\ lost \subseteq Contexts
  /\ call \in {"none", "for", "while", "write"}
  /\ expired \in BOOLEAN
  /\ request \in Requests \cup {NoRequest}
  /\ passed \in 0..Len(writeBuf)
  /\ ret = WantWrite \/ ret \in 0..MaxFragment
  /\ tlsRc \in {"none", "SUCCESS", "WRITE_TIMEOUT", "WRITE_ERROR"}
  /\ cuts \in 0..MaxCuts

\* Wherever a connection attempt fails and however the session ends, no context is
\* initialised again while it holds memory or a socket: years of reconnections do
\* not exhaust the heap.
NothingLeaks == lost = {}

\* A packet goes out without a gap or a repetition, also when its time runs out on
\* the way: every mbedtls_ssl_write starts after what TLS has taken before.
NoGapInPacket == call = "write" => written = passed

\* iot_tls_write returns, unless one mbedtls_ssl_write never does: a network that
\* takes nothing and says so, or takes the packet in crumbs, does not hold it.
WriteEnds == []<>(call # "write") => (call # "none" ~> call = "none")

\* A packet ends where its encoded length says, and needs no more room than was
\* asked for it before it was written.
LengthsAnnounced ==
  writeBuf # <<>> =>
    /\ End(writeBuf) = Len(writeBuf) + 1
    /\ Len(writeBuf) <= FinalLength(DecodeLen(Tail(writeBuf)).len)
    /\ \A i \in DOMAIN writeBuf : writeBuf[i] \in Byte

\* What the client publishes is what its own deserializer reads back, also where
\* the length takes a second byte and the identifier is close to its limits.
PublishRoundTrip ==
  request.type = "PUBLISH" =>
    DeserializePublish(writeBuf) = [request EXCEPT !.id = IF request.qos = 0 THEN 0 ELSE @]

\* Of the n strings that follow one another from a place in a buffer, where the
\* one after the first k starts.
PlaceOfString(buf, from, n) ==
  LET place[k \in 0..n] == IF k = 0 THEN from ELSE place[k - 1] + 2 + ReadU16(buf, place[k - 1])
  IN place
StringAt(buf, at) == SubSeq(buf, at + 2, at + 1 + ReadU16(buf, at))

\* A broker that reads the optional fields of a CONNECT by its flags finds each
\* where the client wrote it, and nothing after the last one.
ConnectReadsBack ==
  request.type = "CONNECT" =>
    LET flags  == writeBuf[Start(writeBuf) + 7]
        bit(power) == (flags \div power) % 2
        fields == <<request.clientID>> \o request.will \o request.username \o request.password
        place  == PlaceOfString(writeBuf, Start(writeBuf) + 10, Len(fields))
    IN /\ bit(4) = Len(request.will) \div 2
       /\ bit(64) = Len(request.password)
       /\ bit(128) = Len(request.username)
       /\ request.cleanSession <=> bit(2) = 1
       /\ \A k \in DOMAIN fields : StringAt(writeBuf, place[k - 1]) = fields[k]
       /\ place[Len(fields)] = Len(writeBuf) + 1

\* The bytes of a topic, "/" between its levels.
Joined(levels) ==
  FlattenSeq([i \in DOMAIN levels |-> IF i = 1 THEN levels[i] ELSE <<Slash>> \o levels[i]])

\* What a filter means: "+" is any one level, a final "#" is one level or more.
Means(filter, name) ==
  LET n == Len(filter)
      Same(k) == \A i \in 1..k : filter[i] \in {<<Plus>>, name[i]}
  IN IF filter[n] = <<Hash>> THEN Len(name) >= n /\ Same(n - 1)
     ELSE Len(name) = n /\ Same(n)

\* A message reaches exactly the handlers whose filter matches its topic, when no
\* level is empty: the loop over bytes does what the levels say.
TopicMatchMeans ==
  request.type = "SUBSCRIBE" =>
    \A filter \in Filters, name \in Names :
      Joined(filter) \in Range(request.topics) =>
        (IsTopicMatched(Joined(filter), Joined(name)) <=> Means(filter, name))

=============================================================================
