------------------------------ MODULE WireProofs ------------------------------
(***************************************************************************)
(* Both ways of the wire.  On the way out: however often the device        *)
(* connects, and wherever an attempt fails, the TLS layer never            *)
(* initialises again what it has not freed; whatever the network takes of  *)
(* a packet, and when, a write in time has no gap; and the packet is the   *)
(* one that was asked for.  On the way in: no byte is written beyond the   *)
(* read buffer, whatever its size, whatever the broker sends and wherever  *)
(* the stream is torn; while it is not torn, the packets that fit are      *)
(* understood in order, each once and as they were sent; and a topic       *)
(* matches the filters that mean it.                                       *)
(***************************************************************************)
EXTENDS TlsPort, PacketStream, MqttPacketsProofs

-----------------------------------------------------------------------------
(* The contexts of the TLS layer.                                          *)

\* What a closed layer holds is what could leak.  The set of all contexts bounds
\* what a step can add.
NothingLeft ==
  /\ lost = {}
  /\ held \subseteq Contexts
  /\ tls = "closed" => held = {}

\* A port that was never connected holds nothing.
THEOREM NothingLeftInit == PortInit => NothingLeft
  BY DEF PortInit, NothingLeft

\* A step of the connection adds contexts that iot_tls_destroy knows.
LEMMA StepKeeps ==
  ASSUME NothingLeft,
         NEW from, NEW gets \in SUBSET Contexts, NEW to,
         to # "closed",
         Step(from, gets, to)
  PROVE  NothingLeft'
<1>1. lost' = {}
  BY DEF NothingLeft, Step, session
<1>2. held' \subseteq Contexts
  BY DEF NothingLeft, Step
<1>3. tls' # "closed"
  BY DEF Step
<1>4. QED
  BY <1>1, <1>2, <1>3 DEF NothingLeft

\* A write touches neither the contexts nor what they hold.
LEMMA SessionKept ==
  NothingLeft /\ UNCHANGED session => NothingLeft'
  BY DEF NothingLeft, session

\* Every step of the specification keeps the invariant: the connection's steps
\* by what they add, the close by what it frees, and the writes touch neither.
THEOREM NothingLeftNext == NothingLeft /\ [PortNext]_portVars => NothingLeft'
<1> SUFFICES ASSUME NothingLeft, [PortNext]_portVars
             PROVE  NothingLeft'
  OBVIOUS
<1>1. CASE tls_connect
  BY <1>1 DEF tls_connect, NothingLeft
<1>2. CASE Seed
  <2>1. {"drbg", "entropy"} \in SUBSET Contexts
    BY DEF Contexts
  <2>2. QED
    BY <1>2, <2>1, StepKeeps DEF Seed
<1>3. CASE Credentials
  <2>1. CASE Step("credentials", {"cacert"}, "clicert")
    BY <2>1, StepKeeps DEF Contexts
  <2>2. CASE Step("clicert", {"clicert"}, "pkey")
    BY <2>2, StepKeeps DEF Contexts
  <2>3. CASE Step("pkey", {"pkey"}, "socket")
    BY <2>3, StepKeeps DEF Contexts
  <2>4. QED
    BY <1>3, <2>1, <2>2, <2>3 DEF Credentials
<1>4. CASE Socket
  BY <1>4, StepKeeps DEF Socket, Contexts
<1>5. CASE Configure
  BY <1>5, StepKeeps DEF Configure, Contexts
<1>6. CASE Handshake
  BY <1>6, StepKeeps DEF Handshake, Contexts
<1>7. CASE Close
  <2>1. held' = {} /\ lost' = {}
    BY <1>7 DEF Close, Destroy, NothingLeft
  <2>2. QED
    BY <2>1 DEF NothingLeft
<1>8. CASE SendPacket
  BY <1>8, SessionKept DEF SendPacket
<1>9. CASE TimerExpires
  BY <1>9, SessionKept DEF TimerExpires
<1>10. CASE WriteFor
  BY <1>10, SessionKept DEF WriteFor
<1>11. CASE WriteWhile \/ SslWrite
  BY <1>11, SessionKept DEF WriteWhile, SslWrite
<1>12. CASE UNCHANGED portVars
  BY <1>12, SessionKept DEF portVars
<1>13. QED
  BY <1>1, <1>2, <1>3, <1>4, <1>5, <1>6, <1>7, <1>8, <1>9, <1>10, <1>11, <1>12 DEF PortNext

\* No context is ever initialised while it owns memory or a socket.
THEOREM PortLeaksNothing == PortSpec => []NothingLeaks
<1>1. NothingLeft => NothingLeaks
  BY DEF NothingLeft, NothingLeaks
<1>2. QED
  BY NothingLeftInit, NothingLeftNext, <1>1, PTL DEF PortSpec

-----------------------------------------------------------------------------
(* The loops of iot_tls_write.                                             *)

\* The count and what TLS has taken agree wherever the loops are before the timer
\* expires, and still do in the mbedtls_ssl_write that outlasts it.
CountAgrees == call = "write" \/ (call \in {"for", "while"} /\ ~expired) => written = passed

\* A step outside the write loop changes no count.
LEMMA CountKept ==
  CountAgrees /\ UNCHANGED <<call, expired, written, passed>> => CountAgrees'
  BY DEF CountAgrees

\* Every step keeps the agreement, or finds that the timer has expired.
LEMMA CountAgreesNext == CountAgrees /\ [PortNext]_portVars => CountAgrees'
<1> SUFFICES ASSUME CountAgrees, [PortNext]_portVars
             PROVE  CountAgrees'
  OBVIOUS
<1>1. CASE tls_connect
  BY <1>1, CountKept DEF tls_connect, writing
<1>2. CASE Seed \/ Credentials \/ Socket \/ Configure \/ Handshake
  <2>1. PICK from, gets, to : Step(from, gets, to)
    BY <1>2 DEF Seed, Credentials, Socket, Configure, Handshake
  <2>2. QED
    BY <2>1, CountKept DEF Step, writing
<1>3. CASE Close
  BY <1>3 DEF Close, CountAgrees
<1>4. CASE SendPacket
  BY <1>4 DEF SendPacket, CountAgrees
<1>5. CASE TimerExpires
  BY <1>5 DEF TimerExpires, CountAgrees
<1>6. CASE WriteFor
  BY <1>6 DEF WriteFor, WriteReturns, CountAgrees
<1>7. CASE WriteWhile
  BY <1>7 DEF WriteWhile, Increment, CountAgrees
<1>8. CASE SslWrite
  <2>1. CASE passed' = passed + ret' /\ Increment
    BY <1>8, <2>1 DEF SslWrite, Increment, CountAgrees
  <2>2. CASE call' = "while" /\ UNCHANGED <<written, passed>>
    BY <1>8, <2>2 DEF SslWrite, CountAgrees
  <2>3. CASE WriteReturns("WRITE_ERROR")
    BY <2>3 DEF WriteReturns, CountAgrees
  <2>4. QED
    BY <1>8, <2>1, <2>2, <2>3 DEF SslWrite
<1>9. CASE UNCHANGED portVars
  BY <1>9, CountKept DEF portVars, writing
<1>10. QED
  BY <1>1, <1>2, <1>3, <1>4, <1>5, <1>6, <1>7, <1>8, <1>9 DEF PortNext

\* Between two bytes of a packet nothing is skipped or sent again, however the
\* network splits it and whenever the timer expires.
THEOREM PacketHasNoGap == PortSpec => []NoGapInPacket
<1>1. PortInit => CountAgrees
  BY DEF PortInit, CountAgrees
<1>2. CountAgrees => NoGapInPacket
  BY DEF CountAgrees, NoGapInPacket
<1>3. QED
  BY <1>1, <1>2, CountAgreesNext, PTL DEF PortSpec

-----------------------------------------------------------------------------
(* The types, and what the buffer holds.                                   *)

SessionTyped ==
  /\ tls \in {"closed", "seed", "credentials", "clicert", "pkey", "socket", "configure", "handshake",
              "open", "failed"}
  /\ held \subseteq Contexts /\ lost \subseteq Contexts

WriteTyped ==
  /\ call \in {"none", "for", "while", "write"}
  /\ expired \in BOOLEAN
  /\ passed \in 0..Len(writeBuf)
  /\ ret = WantWrite \/ ret \in 0..MaxFragment
  /\ tlsRc \in {"none", "SUCCESS", "WRITE_TIMEOUT", "WRITE_ERROR"}
  /\ cuts \in 0..MaxCuts
  /\ call # "none" => cuts < MaxCuts

\* The buffer holds the packet of the request, whole, from the moment it is sent to
\* the end of the session.
PacketInHand ==
  \/ request = NoRequest /\ writeBuf = <<>>
  \/ request \in Requests /\ writeBuf = Serialize(request, TxSize) /\ writeBuf # <<>>

PortInv == SessionTyped /\ WriteTyped /\ CountAgrees /\ PacketInHand

\* A step that leaves the buffer alone keeps what it holds.
LEMMA PacketKept ==
  PacketInHand /\ UNCHANGED <<request, writeBuf>> => PacketInHand'
  BY DEF PacketInHand

\* A step that leaves the writing alone.
LEMMA WritingKept ==
  WriteTyped /\ PacketInHand /\ UNCHANGED writing => WriteTyped' /\ PacketInHand'
  BY DEF WriteTyped, PacketInHand, writing

\* A step that leaves the session alone.
LEMMA SessionTypeKept ==
  SessionTyped /\ UNCHANGED session => SessionTyped'
  BY DEF SessionTyped, session

\* A step of the connection.
LEMMA StepTyped ==
  ASSUME SessionTyped, NEW from, NEW gets \in SUBSET Contexts,
         NEW to \in {"credentials", "clicert", "pkey", "socket", "configure", "handshake", "open"},
         Step(from, gets, to)
  PROVE  SessionTyped'
  BY DEF SessionTyped, Step

\* What the serializers leave in the buffer is a sequence of bytes.
LEMMA SerializedIs ==
  ASSUME NEW r \in Requests, Serialize(r, TxSize) # <<>>
  PROVE  \E header \in Byte, body \in Seq(Byte) : Wrapped(Serialize(r, TxSize), header, body)
<1>1. r \in ClientPackets
  BY RequestsAssumption
<1>2. TxSize \in Nat /\ TxSize < MaxLength
  BY PortAssumption, Zenon
<1> QED
  BY <1>1, <1>2, ClientWraps, Zenon

\* The length of the buffer is a number.
LEMMA BufferLength ==
  ASSUME PacketInHand
  PROVE  writeBuf \in Seq(Byte) /\ Len(writeBuf) \in Nat
<1>1. CASE request = NoRequest /\ writeBuf = <<>>
  BY <1>1
<1>2. CASE request \in Requests /\ writeBuf = Serialize(request, TxSize) /\ writeBuf # <<>>
  <2>1. PICK header \in Byte, body \in Seq(Byte) : Wrapped(writeBuf, header, body)
    BY <1>2, SerializedIs
  <2>2. writeBuf \in Seq(Byte)
    BY <2>1, Zenon DEF Wrapped
  <2> QED
    BY <2>2, LenProperties, Zenon
<1> QED
  BY <1>1, <1>2 DEF PacketInHand

\* A write returns: what was not sent whole is counted once.
LEMMA ReturnTyped ==
  ASSUME WriteTyped, call # "none", NEW rc \in {"SUCCESS", "WRITE_TIMEOUT", "WRITE_ERROR"},
         WriteReturns(rc), UNCHANGED <<writeBuf, passed>>
  PROVE  WriteTyped'
<1>1. cuts' \in 0..MaxCuts
  BY PortAssumption DEF WriteTyped, WriteReturns
<1>2. 0 \in 0..MaxFragment
  BY PortAssumption
<1> QED
  BY <1>1, <1>2 DEF WriteTyped, WriteReturns

\* The smaller of two numbers.
LEMMA MinOfTwo ==
  ASSUME NEW a \in Nat, NEW b \in Nat
  PROVE  Min({a, b}) \in Nat /\ Min({a, b}) <= a /\ Min({a, b}) <= b
<1>1. \E m \in {a, b} : \A y \in {a, b} : m <= y
  OBVIOUS
<1>2. Min({a, b}) \in {a, b} /\ \A y \in {a, b} : Min({a, b}) <= y
  BY <1>1 DEF Min
<1> QED
  BY <1>2

\* Every step keeps the types, and the packet in the buffer.
THEOREM PortInvNext == PortInv /\ [PortNext]_portVars => SessionTyped' /\ WriteTyped' /\ PacketInHand'
<1> SUFFICES ASSUME PortInv, [PortNext]_portVars
             PROVE  SessionTyped' /\ WriteTyped' /\ PacketInHand'
  OBVIOUS
<1> USE DEF PortInv
<1>0. writeBuf \in Seq(Byte) /\ Len(writeBuf) \in Nat
  BY BufferLength
<1>1. CASE tls_connect
  <2>1. SessionTyped'
    BY <1>1 DEF tls_connect, SessionTyped
  <2> QED
    BY <1>1, <2>1, WritingKept DEF tls_connect
<1>2. CASE Seed \/ Credentials \/ Socket \/ Configure \/ Handshake
  <2>1. CASE Seed
    <3>1. Step("seed", {"drbg", "entropy"}, "credentials") /\ {"drbg", "entropy"} \in SUBSET Contexts
      BY <2>1 DEF Seed, Contexts
    <3> QED
      BY <3>1, StepTyped, WritingKept DEF Step
  <2>2. CASE Credentials
    <3>1. {"cacert"} \in SUBSET Contexts /\ {"clicert"} \in SUBSET Contexts /\ {"pkey"} \in SUBSET Contexts
      BY DEF Contexts
    <3>2. CASE Step("credentials", {"cacert"}, "clicert")
      BY <3>1, <3>2, StepTyped, WritingKept DEF Step
    <3>3. CASE Step("clicert", {"clicert"}, "pkey")
      BY <3>1, <3>3, StepTyped, WritingKept DEF Step
    <3>4. CASE Step("pkey", {"pkey"}, "socket")
      BY <3>1, <3>4, StepTyped, WritingKept DEF Step
    <3> QED
      BY <2>2, <3>2, <3>3, <3>4 DEF Credentials
  <2>3. CASE Socket
    <3>1. Step("socket", {"server_fd"}, "configure") /\ {"server_fd"} \in SUBSET Contexts
      BY <2>3 DEF Socket, Contexts
    <3> QED
      BY <3>1, StepTyped, WritingKept DEF Step
  <2>4. CASE Configure
    <3>1. Step("configure", {"conf", "ssl"}, "handshake") /\ {"conf", "ssl"} \in SUBSET Contexts
      BY <2>4 DEF Configure, Contexts
    <3> QED
      BY <3>1, StepTyped, WritingKept DEF Step
  <2>5. CASE Handshake
    <3>1. Step("handshake", {}, "open") /\ {} \in SUBSET Contexts
      BY <2>5 DEF Handshake
    <3> QED
      BY <3>1, StepTyped, WritingKept DEF Step
  <2> QED
    BY <1>2, <2>1, <2>2, <2>3, <2>4, <2>5
<1>3. CASE Close
  <2>1. SessionTyped'
    BY <1>3 DEF Close, Destroy, SessionTyped
  <2>2. WriteTyped'
    <3>1. 0 \in 0..MaxCuts /\ 0 \in 0..Len(<<>>)
      BY PortAssumption
    <3> QED
      BY <1>3, <3>1 DEF Close, WriteTyped
  <2>3. PacketInHand'
    BY <1>3 DEF Close, PacketInHand
  <2> QED
    BY <2>1, <2>2, <2>3
<1>4. CASE SendPacket
  <2>1. SessionTyped'
    BY <1>4, SessionTypeKept DEF SendPacket
  <2>2. PacketInHand'
    BY <1>4 DEF SendPacket, Serialized, PacketInHand
  <2>3. Len(writeBuf') \in Nat
    <3>1. PICK r \in Requests : writeBuf' = Serialize(r, TxSize) /\ Serialize(r, TxSize) # <<>>
      BY <1>4 DEF SendPacket, Serialized
    <3>2. PICK header \in Byte, body \in Seq(Byte) : Wrapped(Serialize(r, TxSize), header, body)
      BY <3>1, SerializedIs
    <3>3. writeBuf' \in Seq(Byte)
      BY <3>1, <3>2, Zenon DEF Wrapped
    <3> QED
      BY <3>3
  <2>4. WriteTyped'
    <3>1. 0 \in 0..Len(writeBuf') /\ 0 \in 0..MaxFragment
      BY <2>3, PortAssumption
    <3> QED
      BY <1>4, <3>1 DEF SendPacket, WriteTyped
  <2> QED
    BY <2>1, <2>2, <2>4
<1>5. CASE TimerExpires
  <2>1. SessionTyped'
    BY <1>5, SessionTypeKept DEF TimerExpires
  <2>2. WriteTyped' /\ PacketInHand'
    BY <1>5 DEF TimerExpires, WriteTyped, PacketInHand
  <2> QED
    BY <2>1, <2>2
<1>6. CASE WriteFor
  <2>1. SessionTyped' /\ PacketInHand'
    BY <1>6, SessionTypeKept, PacketKept DEF WriteFor
  <2>2. CASE call' = "while" /\ UNCHANGED <<written, ret, expired, tlsRc, cuts>>
    BY <1>6, <2>1, <2>2 DEF WriteFor, WriteTyped
  <2>3. ASSUME NEW rc \in {"SUCCESS", "WRITE_TIMEOUT", "WRITE_ERROR"}, WriteReturns(rc)
        PROVE  WriteTyped'
    BY <1>6, <2>3, ReturnTyped DEF WriteFor
  <2>4. QED
    BY <1>6, <2>1, <2>2, <2>3 DEF WriteFor
<1>7. CASE WriteWhile
  <2>1. SessionTyped' /\ PacketInHand'
    BY <1>7, SessionTypeKept, PacketKept DEF WriteWhile
  <2>2. WriteTyped'
    BY <1>7 DEF WriteWhile, WriteTyped, Increment
  <2> QED
    BY <2>1, <2>2
<1>8. CASE SslWrite
  <2>1. SessionTyped' /\ PacketInHand'
    BY <1>8, SessionTypeKept, PacketKept DEF SslWrite
  <2>2. CASE /\ ret' = Min({MaxFragment, Len(writeBuf) - written})
             /\ passed' = passed + ret'
             /\ Increment
             /\ UNCHANGED <<expired, tlsRc, cuts>>
    <3>1. written = passed /\ passed \in 0..Len(writeBuf)
      BY <1>8 DEF SslWrite, CountAgrees, WriteTyped
    <3>2. Len(writeBuf) - written \in Nat
      BY <1>0, <3>1
    <3>3. ret' \in Nat /\ ret' <= MaxFragment /\ ret' <= Len(writeBuf) - written
      BY <2>2, <3>2, MinOfTwo, PortAssumption
    <3>4. passed' \in 0..Len(writeBuf) /\ ret' \in 0..MaxFragment
      BY <1>0, <2>2, <3>1, <3>3, PortAssumption
    <3> QED
      BY <1>8, <2>1, <2>2, <3>4 DEF SslWrite, WriteTyped, Increment
  <2>3. CASE call' = "while" /\ ret' = WantWrite /\ UNCHANGED <<written, expired, passed, tlsRc, cuts>>
    BY <1>8, <2>1, <2>3 DEF SslWrite, WriteTyped
  <2>4. CASE UNCHANGED passed /\ WriteReturns("WRITE_ERROR")
    BY <1>8, <2>1, <2>4, ReturnTyped DEF SslWrite
  <2> QED
    BY <1>8, <2>2, <2>3, <2>4 DEF SslWrite
<1>9. CASE UNCHANGED portVars
  BY <1>9, SessionTypeKept, WritingKept DEF portVars
<1> QED
  BY <1>1, <1>2, <1>3, <1>4, <1>5, <1>6, <1>7, <1>8, <1>9 DEF PortNext

\* The invariant of every step.
LEMMA PortInvKept == PortInv /\ [PortNext]_portVars => PortInv'
  BY PortInvNext, CountAgreesNext DEF PortInv

\* A port that was never used.
LEMMA PortInvInit == PortInit => PortInv
<1>1. 0 \in 0..Len(<<>>) /\ 0 \in 0..MaxFragment /\ 0 \in 0..MaxCuts
  BY PortAssumption
<1> QED
  BY <1>1 DEF PortInit, PortInv, SessionTyped, WriteTyped, CountAgrees, PacketInHand

\* It holds in every state.
THEOREM PortInvariant == PortSpec => []PortInv
  BY PortInvInit, PortInvKept, PTL DEF PortSpec

\* The states are of their types: no more bytes are passed to TLS than the packet has,
\* and a session that is cut too often sends no more.
THEOREM PortTyped == PortSpec => []PortTypeOK
<1>1. PortInv => PortTypeOK
  BY DEF PortInv, PortTypeOK, SessionTyped, WriteTyped, PacketInHand
<1> QED
  BY <1>1, PortInvariant, PTL

-----------------------------------------------------------------------------
(* The packet in the buffer is the packet that was asked for.              *)

\* Strings written one after the other are found one after the other.
LEMMA StringsRead ==
  ASSUME NEW ss \in Seq(String), NEW buf \in Seq(Byte), NEW at \in Places,
         Holds(buf, at, FlattenSeq(Strings(ss))), NEW place, place = PlaceOfString(buf, at, Len(ss))
  PROVE  /\ \A k \in 1..Len(ss) : StringAt(buf, place[k - 1]) = ss[k]
         /\ place[Len(ss)] = at + Len(FlattenSeq(Strings(ss)))
<1>1. PICK m \in Nat, q \in Seq(Seq(Byte)) :
        /\ m = Len(ss) /\ q = Strings(ss) /\ Len(q) = m
        /\ \A i \in 1..m : ss[i] \in String /\ q[i] = WriteString(ss[i])
  BY StringsAre, Zenon
<1>2. PICK f : PrefixesOf(f, q)
  BY PrefixesExist, Zenon
<1>3. f \in [0..m -> Seq(Byte)] /\ f[0] = <<>> /\ 0 \in 0..m
  BY <1>1, <1>2, PrefixesAre, Zenon
<1>4. \A n \in 1..m : /\ Holds(buf, at + Len(f[n - 1]), q[n])
                      /\ at + Len(f[n - 1]) \in Places
                      /\ Len(f[n]) = Len(f[n - 1]) + Len(q[n])
  <2>1. Holds(buf, at, FlattenSeq(q))
    BY <1>1, Zenon
  <2>2. \A n \in 1..Len(q) : /\ Holds(buf, at + Len(f[n - 1]), q[n])
                             /\ at + Len(f[n - 1]) \in Places
                             /\ Len(f[n]) = Len(f[n - 1]) + Len(q[n])
    BY <1>2, <2>1, FlattenRead
  <2> QED
    BY <1>1, <2>2, Zenon
<1> DEFINE Is(g) == g = [k \in 0..m |-> IF k = 0 THEN at ELSE g[k - 1] + 2 + ReadU16(buf, g[k - 1])]
           found == [k \in 0..m |-> at + Len(f[k])]
<1>5. ASSUME NEW k \in 1..m
      PROVE  /\ ReadU16(buf, at + Len(f[k - 1])) = Len(ss[k])
             /\ SubSeq(buf, (at + Len(f[k - 1])) + 2, (at + Len(f[k - 1])) + 1 + Len(ss[k])) = ss[k]
             /\ at + Len(f[k]) = (at + Len(f[k - 1])) + 2 + Len(ss[k])
  <2>1. ss[k] \in String /\ q[k] = WriteString(ss[k])
    BY <1>1, Zenon
  <2>2. PICK x \in Places : x = at + Len(f[k - 1]) /\ Holds(buf, x, WriteString(ss[k]))
    BY <1>4, <2>1, Zenon
  <2>3. ReadU16(buf, x) = Len(ss[k]) /\ SubSeq(buf, x + 2, x + 1 + Len(ss[k])) = ss[k]
    <3>1. PICK s \in String : s = ss[k] /\ Holds(buf, x, WriteString(s))
      BY <2>1, <2>2, Zenon
    <3>2. ReadU16(buf, x) = Len(s) /\ SubSeq(buf, x + 2, x + 1 + Len(s)) = s
      BY <3>1, StringRead
    <3> QED
      BY <3>1, <3>2, Zenon
  <2>4. Len(q[k]) = 2 + Len(ss[k])
    BY <2>1, StringTyped, Zenon
  <2>5. PICK y \in Nat, z \in Nat : y = Len(f[k - 1]) /\ z = Len(ss[k])
    <3>1. k - 1 \in 0..m
      OBVIOUS
    <3>2. f[k - 1] \in Seq(Byte)
      BY <1>3, <3>1
    <3>3. Len(ss[k]) \in Nat
      BY <2>1 DEF String, Word
    <3> QED
      BY <3>2, <3>3
  <2>6. at + (y + (2 + z)) = (at + y) + 2 + z
    BY DEF Places
  <2>7. Len(f[k]) = y + (2 + z)
    BY <1>4, <2>4, <2>5, Zenon
  <2> QED
    BY <2>2, <2>3, <2>5, <2>6, <2>7, Zenon
<1>6. Is(found)
  <2>1. ASSUME NEW k \in 0..m
        PROVE  found[k] = IF k = 0 THEN at ELSE found[k - 1] + 2 + ReadU16(buf, found[k - 1])
    <3>1. CASE k = 0
      <4>1. found[0] = at + Len(f[0]) /\ Len(f[0]) = 0
        BY <1>3
      <4>2. at + 0 = at
        BY DEF Places
      <4> QED
        BY <3>1, <4>1, <4>2, Zenon
    <3>2. CASE k # 0
      <4>1. k \in 1..m /\ k - 1 \in 0..m
        BY <3>2
      <4>2. found[k] = at + Len(f[k]) /\ found[k - 1] = at + Len(f[k - 1])
        BY <4>1
      <4>3. at + Len(f[k]) = (at + Len(f[k - 1])) + 2 + Len(ss[k]) /\ ReadU16(buf, at + Len(f[k - 1])) = Len(ss[k])
        BY <1>5, <4>1, Zenon
      <4> QED
        BY <3>2, <4>2, <4>3, Zenon
    <3> QED
      BY <3>1, <3>2, Zenon
  <2> QED
    BY <2>1
<1>7. place = (CHOOSE g : Is(g)) /\ Is(place)
  <2>1. place = (CHOOSE g : Is(g))
    BY <1>1 DEF PlaceOfString
  <2> HIDE DEF Is
  <2> QED
    BY <1>6, <2>1, Zenon
<1>8. \A k \in 0..m : place[k] = IF k = 0 THEN at ELSE place[k - 1] + 2 + ReadU16(buf, place[k - 1])
  <2>1. place = [k \in 0..m |-> IF k = 0 THEN at ELSE place[k - 1] + 2 + ReadU16(buf, place[k - 1])]
    BY <1>7
  <2> HIDE DEF Is
  <2> QED
    BY <2>1
<1>9. \A k \in 0..m : found[k] = IF k = 0 THEN at ELSE found[k - 1] + 2 + ReadU16(buf, found[k - 1])
  <2>1. found = [k \in 0..m |-> IF k = 0 THEN at ELSE found[k - 1] + 2 + ReadU16(buf, found[k - 1])]
    BY <1>6
  <2> HIDE DEF Is, found
  <2> QED
    BY <2>1
<1>10. \A k \in 0..m : found[k] = at + Len(f[k])
  OBVIOUS
<1> DEFINE T == {k \in Nat : k \in 0..m => place[k] = found[k]}
<1> HIDE DEF Is, found
<1>11. ASSUME NEW n \in Nat, \A k \in Nat : k < n => k \in T PROVE n \in T
  <2> SUFFICES ASSUME n \in 0..m PROVE place[n] = found[n]
    OBVIOUS
  <2>1. CASE n = 0
    BY <1>8, <1>9, <2>1
  <2>2. CASE n # 0
    <3>1. n - 1 \in 0..m /\ n - 1 \in Nat /\ n - 1 < n
      BY <2>2
    <3>2. place[n - 1] = found[n - 1]
      BY <1>11, <3>1
    <3> QED
      BY <1>8, <1>9, <2>2, <3>2, Zenon
  <2> QED
    BY <2>1, <2>2
<1> HIDE DEF T
<1>12. Nat \subseteq T
  BY <1>11, Induction
<1>13. \A k \in 0..m : place[k] = at + Len(f[k])
  <2>1. \A k \in 0..m : k \in Nat
    OBVIOUS
  <2> QED
    BY <1>10, <1>12, <2>1 DEF T
<1>14. ASSUME NEW k \in 1..m PROVE StringAt(buf, place[k - 1]) = ss[k]
  <2>1. k - 1 \in 0..m
    OBVIOUS
  <2>2. place[k - 1] = at + Len(f[k - 1])
    BY <1>13, <2>1
  <2> QED
    BY <1>5, <2>2, Zenon DEF StringAt
<1>15. m \in 0..m
  OBVIOUS
<1>16. FlattenSeq(q) = f[m]
  BY <1>1, <1>2, FlattenIs, Zenon
<1> QED
  BY <1>1, <1>13, <1>14, <1>15, <1>16, Zenon

\* A request of the client in the buffer is one of the packets of its type.
LEMMA RequestInHand ==
  ASSUME PacketInHand, request # NoRequest \/ writeBuf # <<>>
  PROVE  /\ request \in ClientPackets /\ writeBuf = Serialize(request, TxSize)
         /\ Serialize(request, TxSize) # <<>> /\ TxSize \in Nat /\ TxSize < MaxLength
         /\ \E header \in Byte, body \in Seq(Byte) : Wrapped(writeBuf, header, body)
<1>1. request \in Requests /\ writeBuf = Serialize(request, TxSize) /\ writeBuf # <<>>
  BY Zenon DEF PacketInHand
<1>2. request \in ClientPackets
  BY <1>1, RequestsAssumption
<1>3. TxSize \in Nat /\ TxSize < MaxLength
  BY PortAssumption, Zenon
<1>4. \E header \in Byte, body \in Seq(Byte) : Wrapped(Serialize(request, TxSize), header, body)
  BY <1>1, SerializedIs
<1> QED
  BY <1>1, <1>2, <1>3, <1>4, Zenon

\* Every packet of the client ends where its encoded length says, and was given the
\* room it needs: for every packet, every length of it and every buffer.
THEOREM PacketsAnnounceLength == PortSpec => []LengthsAnnounced
<1>1. PortInv => LengthsAnnounced
  <2> SUFFICES ASSUME PortInv, writeBuf # <<>>
               PROVE  /\ End(writeBuf) = Len(writeBuf) + 1
                      /\ Len(writeBuf) <= FinalLength(DecodeLen(Tail(writeBuf)).len)
                      /\ \A i \in DOMAIN writeBuf : writeBuf[i] \in Byte
    BY Zenon DEF LengthsAnnounced
  <2>1. PacketInHand /\ (request # NoRequest \/ writeBuf # <<>>)
    BY DEF PortInv
  <2>2. PICK header \in Byte, body \in Seq(Byte) : Wrapped(writeBuf, header, body)
    BY <2>1, RequestInHand, Zenon
  <2>3. /\ End(writeBuf) = Len(writeBuf) + 1 /\ writeBuf \in Seq(Byte)
        /\ Len(writeBuf) <= FinalLength(Len(body)) /\ DecodeLen(Tail(writeBuf)).len = Len(body)
    BY <2>2, Zenon DEF Wrapped
  <2>4. \A i \in DOMAIN writeBuf : writeBuf[i] \in Byte
    BY <2>3
  <2> QED
    BY <2>3, <2>4, Zenon
<1> QED
  BY <1>1, PortInvariant, PTL

\* What the client publishes, its own deserializer reads back, whatever the topic, the
\* payload and the identifier.
THEOREM PublishReadsBack == PortSpec => []PublishRoundTrip
<1>1. PortInv => PublishRoundTrip
  <2> SUFFICES ASSUME PortInv, request.type = "PUBLISH"
               PROVE  DeserializePublish(writeBuf)
                        = [request EXCEPT !.id = IF request.qos = 0 THEN 0 ELSE @]
    BY Zenon DEF PublishRoundTrip
  <2>1. PacketInHand /\ request # NoRequest
    BY DEF PortInv, NoRequest
  <2>2. /\ request \in ClientPackets /\ writeBuf = Serialize(request, TxSize)
        /\ Serialize(request, TxSize) # <<>> /\ TxSize \in Nat /\ TxSize < MaxLength
    BY <2>1, RequestInHand, Zenon
  <2>3. request \in PublishPackets
    BY <2>2 DEF ClientPackets, ConnectPackets, SubscribePackets, UnsubscribePackets
  <2>4. Serialize(request, TxSize) = SerializePublish(request, TxSize)
    BY DEF Serialize
  <2> QED
    BY <2>2, <2>3, <2>4, PublishReadBack, Zenon
<1> QED
  BY <1>1, PortInvariant, PTL

\* A broker finds each field of a CONNECT where its flags say, and nothing behind the
\* last, whatever the fields.
THEOREM ConnectFieldsFound == PortSpec => []ConnectReadsBack
<1>1. PortInv => ConnectReadsBack
  <2> SUFFICES ASSUME PortInv, request.type = "CONNECT"
               PROVE  ConnectReadsBack
    BY Zenon DEF ConnectReadsBack
  <2>1. PacketInHand /\ request # NoRequest
    BY DEF PortInv, NoRequest
  <2>2. /\ request \in ClientPackets /\ writeBuf = Serialize(request, TxSize)
        /\ Serialize(request, TxSize) # <<>> /\ TxSize \in Nat /\ TxSize < MaxLength
    BY <2>1, RequestInHand, Zenon
  <2>3. request \in ConnectPackets
    BY <2>2 DEF ClientPackets, PublishPackets, SubscribePackets, UnsubscribePackets
  <2>4. Serialize(request, TxSize) = SerializeConnect(request, TxSize)
    BY DEF Serialize
  <2>5. /\ writeBuf \in Seq(Byte) /\ Start(writeBuf) \in Places
        /\ writeBuf[Start(writeBuf) + 7] = ConnectFlags(request)
        /\ Start(writeBuf) + 10 \in Places
        /\ Holds(writeBuf, Start(writeBuf) + 10, FlattenSeq(Strings(ConnectFields(request))))
        /\ Start(writeBuf) + 10 + Len(FlattenSeq(Strings(ConnectFields(request)))) = Len(writeBuf) + 1
    BY <2>2, <2>3, <2>4, ConnectPlaces, Zenon
  <2>6. PICK ss \in Seq(String), at \in Places :
          ss = ConnectFields(request) /\ at = Start(writeBuf) + 10
    BY <2>3, <2>5, ConnectLengthIs, Zenon
  <2> DEFINE place == PlaceOfString(writeBuf, at, Len(ss))
  <2> HIDE DEF place
  <2>7. /\ \A k \in 1..Len(ss) : StringAt(writeBuf, place[k - 1]) = ss[k]
        /\ place[Len(ss)] = at + Len(FlattenSeq(Strings(ss)))
    <3>1. writeBuf \in Seq(Byte) /\ Holds(writeBuf, at, FlattenSeq(Strings(ss)))
      BY <2>5, <2>6, Zenon
    <3> QED
      BY <3>1, StringsRead DEF place
  <2>8. DOMAIN ss = 1..Len(ss)
    OBVIOUS
  <2>9. /\ (ConnectFlags(request) \div 4) % 2 = Len(request.will) \div 2
        /\ (ConnectFlags(request) \div 64) % 2 = Len(request.password)
        /\ (ConnectFlags(request) \div 128) % 2 = Len(request.username)
        /\ request.cleanSession <=> (ConnectFlags(request) \div 2) % 2 = 1
    BY <2>3, FlagsRead, Zenon
  <2>10. /\ \A k \in DOMAIN ss : StringAt(writeBuf, place[k - 1]) = ss[k]
         /\ place[Len(ss)] = Len(writeBuf) + 1
    BY <2>5, <2>6, <2>7, <2>8, Zenon
  <2> QED
    BY <2>5, <2>6, <2>9, <2>10, Zenon DEF ConnectReadsBack, ConnectFields, place
<1> QED
  BY <1>1, PortInvariant, PTL

-----------------------------------------------------------------------------
(* Topics in levels.                                                       *)

\* Level i of a topic begins at starts[i] of its bytes; the one behind the last would
\* begin behind a separator.
Spread(bytes, levels, starts) ==
  /\ bytes \in Seq(Byte)
  /\ \A i \in 1..(Len(levels) + 1) : starts[i] \in Places
  /\ starts[1] = 1 /\ starts[Len(levels) + 1] = Len(bytes) + 2
  /\ \A i \in 1..Len(levels) :
       /\ starts[i + 1] = starts[i] + Len(levels[i]) + 1 /\ starts[i + 1] <= Len(bytes) + 2
       /\ \A k \in 1..Len(levels[i]) : bytes[starts[i] + k - 1] = levels[i][k]
       /\ i < Len(levels) => bytes[starts[i + 1] - 1] = Slash

\* What a level is joined with.
WithSlash(i, level) == IF i = 1 THEN level ELSE <<Slash>> \o level

\* It is the level, behind a separator unless it is the first.
LEMMA WithSlashIs ==
  ASSUME NEW level \in Seq(Byte), NEW i \in Places
  PROVE  /\ WithSlash(i, level) \in Seq(Byte)
         /\ Len(WithSlash(i, level)) = IF i = 1 THEN Len(level) ELSE Len(level) + 1
         /\ \A k \in 1..Len(level) : WithSlash(i, level)[IF i = 1 THEN k ELSE k + 1] = level[k]
         /\ i # 1 => WithSlash(i, level)[1] = Slash
<1>1. CASE i = 1
  BY <1>1 DEF WithSlash
<1>2. CASE i # 1
  <2>1. <<Slash>> \in Seq(Byte) /\ Len(<<Slash>>) = 1 /\ <<Slash>>[1] = Slash
    BY DEF Slash, Byte
  <2>2. PICK x \in Seq(Byte) : x = <<Slash>>
    BY <2>1
  <2>3. WithSlash(i, level) = x \o level
    BY <1>2, <2>2, Zenon DEF WithSlash
  <2>4. /\ x \o level \in Seq(Byte) /\ Len(x \o level) = Len(level) + 1
        /\ \A k \in 1..Len(level) : (x \o level)[k + 1] = level[k]
        /\ (x \o level)[1] = x[1]
    BY <2>1, <2>2
  <2> QED
    BY <1>2, <2>1, <2>2, <2>3, <2>4
<1> QED
  BY <1>1, <1>2

\* The bytes of every topic are spread like that.
LEMMA JoinedSpread ==
  ASSUME NEW levels \in Seq(Seq(Byte)), levels # <<>>
  PROVE  \E starts : Spread(Joined(levels), levels, starts)
<1>1. PICK m \in Nat : m = Len(levels) /\ m > 0
  BY EmptySeq
<1>2. \A i \in 1..m : levels[i] \in Seq(Byte)
  BY <1>1
<1> DEFINE q == [i \in 1..m |-> WithSlash(i, levels[i])]
<1>3. q \in Seq(Seq(Byte)) /\ Len(q) = m /\ \A i \in 1..m : q[i] = WithSlash(i, levels[i])
  <2>1. \A i \in 1..m : WithSlash(i, levels[i]) \in Seq(Byte)
    BY <1>2, WithSlashIs DEF Places
  <2> QED
    BY <2>1
<1>4. Joined(levels) = FlattenSeq(q)
  <2>1. DOMAIN levels = 1..m
    BY <1>1
  <2> QED
    BY <2>1 DEF Joined, WithSlash
<1> HIDE DEF q
<1>5. PICK f : PrefixesOf(f, q)
  BY <1>3, PrefixesExist
<1>6. /\ f \in [0..m -> Seq(Byte)] /\ f[0] = <<>> /\ 0 \in 0..m
  BY <1>3, <1>5, PrefixesAre
<1>7. PICK J \in Seq(Byte) : J = Joined(levels) /\ J = f[m] /\ J = FlattenSeq(q)
  BY <1>3, <1>4, <1>5, FlattenIs
<1>8. \A n \in 1..m : /\ Holds(J, 1 + Len(f[n - 1]), q[n])
                      /\ Len(f[n]) = Len(f[n - 1]) + Len(q[n])
  <2>1. Holds(J, 1, FlattenSeq(q))
    BY <1>7, HoldsAll
  <2>2. 1 \in Places
    BY DEF Places
  <2> QED
    BY <1>3, <1>5, <2>1, <2>2, FlattenRead
<1> DEFINE starts == [i \in 1..(m + 1) |-> IF i = 1 THEN 1 ELSE Len(f[i - 1]) + 2]
<1>9. \A i \in 1..(m + 1) : /\ starts[i] = IF i = 1 THEN 1 ELSE Len(f[i - 1]) + 2
                            /\ starts[i] \in Places /\ Len(f[i - 1]) \in Nat
  <2> SUFFICES ASSUME NEW i \in 1..(m + 1)
               PROVE  starts[i] \in Places /\ Len(f[i - 1]) \in Nat
    OBVIOUS
  <2>1. f[i - 1] \in Seq(Byte)
    BY <1>6
  <2> QED
    BY <2>1 DEF Places
<1> HIDE DEF starts
<1>10. starts[1] = 1 /\ starts[m + 1] = Len(J) + 2
  <2>1. 1 \in 1..(m + 1) /\ m + 1 \in 1..(m + 1) /\ m + 1 # 1 /\ (m + 1) - 1 = m
    BY <1>1
  <2> QED
    BY <1>7, <1>9, <2>1
<1>11. ASSUME NEW i \in 1..m
       PROVE  /\ starts[i + 1] = starts[i] + Len(levels[i]) + 1 /\ starts[i + 1] <= Len(J) + 2
              /\ \A k \in 1..Len(levels[i]) : J[starts[i] + k - 1] = levels[i][k]
              /\ i # 1 => J[starts[i] - 1] = Slash
  <2>1. PICK l \in Seq(Byte), w \in Seq(Byte) : l = levels[i] /\ w = q[i] /\ w = WithSlash(i, l)
    <3>1. levels[i] \in Seq(Byte) /\ WithSlash(i, levels[i]) \in Seq(Byte)
      BY <1>2, WithSlashIs DEF Places
    <3> QED
      BY <1>3, <3>1
  <2>2. /\ Len(w) = IF i = 1 THEN Len(l) ELSE Len(l) + 1
        /\ \A k \in 1..Len(l) : w[IF i = 1 THEN k ELSE k + 1] = l[k]
        /\ i # 1 => w[1] = Slash
    BY <2>1, WithSlashIs DEF Places
  <2>3. PICK g \in Nat, h \in Nat, a \in Nat, b \in Nat, x \in Nat :
          g = Len(f[i - 1]) /\ h = Len(f[i]) /\ a = Len(l) /\ b = Len(w) /\ x = Len(J)
    <3>1. i - 1 \in 0..m /\ i \in 0..m
      BY <1>1
    <3>2. f[i - 1] \in Seq(Byte) /\ f[i] \in Seq(Byte)
      BY <1>6, <3>1
    <3>3. \A v \in Seq(Byte) : Len(v) \in Nat
      OBVIOUS
    <3> QED
      BY <2>1, <3>2, <3>3, Zenon
  <2>4. h = g + b /\ 1 + g + b <= x + 1 /\ \A k \in 1..b : J[1 + g + k - 1] = w[k]
    BY <1>8, <2>1, <2>3 DEF Holds
  <2>5. starts[i + 1] = h + 2
    <3>1. i + 1 \in 1..(m + 1) /\ i + 1 # 1 /\ (i + 1) - 1 = i
      OBVIOUS
    <3> QED
      BY <1>9, <2>3, <3>1
  <2>6. starts[i] = IF i = 1 THEN 1 ELSE g + 2
    BY <1>9, <2>3
  <2>7. i = 1 => g = 0
    BY <1>6, <2>3
  <2>8. CASE i = 1
    <3>1. a = b /\ g = 0 /\ starts[i] = 1 /\ starts[i + 1] = b + 2 /\ b <= x
      BY <2>2, <2>3, <2>4, <2>5, <2>6, <2>7, <2>8
    <3>2. ASSUME NEW k \in 1..a PROVE J[starts[i] + k - 1] = l[k]
      <4>1. J[1 + g + k - 1] = w[k] /\ w[k] = l[k]
        BY <2>2, <2>3, <2>4, <2>8, <3>1
      <4>2. starts[i] + k - 1 = 1 + g + k - 1
        BY <3>1
      <4> QED
        BY <4>1, <4>2
    <3> QED
      BY <2>1, <2>3, <2>8, <3>1, <3>2
  <2>9. CASE i # 1
    <3>1. b = a + 1 /\ starts[i] = g + 2 /\ starts[i + 1] = g + a + 3 /\ g + a + 1 <= x
      <4>1. b = a + 1
        BY <2>2, <2>3, <2>9
      <4>2. starts[i] = g + 2
        BY <2>6, <2>9
      <4>3. h + 2 = g + a + 3 /\ g + a + 1 <= x
        BY <2>4, <4>1
      <4> QED
        BY <2>5, <4>1, <4>2, <4>3
    <3>2. ASSUME NEW k \in 1..a PROVE J[starts[i] + k - 1] = l[k]
      <4>1. k + 1 \in 1..b /\ starts[i] + k - 1 = 1 + g + (k + 1) - 1
        BY <3>1
      <4>2. w[k + 1] = l[k]
        BY <2>2, <2>3, <2>9
      <4>3. J[1 + g + (k + 1) - 1] = w[k + 1]
        BY <2>4, <4>1
      <4> QED
        BY <4>1, <4>2, <4>3
    <3>3. J[starts[i] - 1] = Slash
      <4>1. 1 \in 1..b /\ starts[i] - 1 = 1 + g + 1 - 1
        BY <3>1
      <4> QED
        BY <2>2, <2>4, <2>9, <4>1
    <3>4. starts[i + 1] = starts[i] + a + 1 /\ starts[i + 1] <= x + 2
      BY <3>1
    <3> QED
      BY <2>1, <2>3, <3>2, <3>3, <3>4
  <2> QED
    BY <2>8, <2>9
<1>12. ASSUME NEW i \in 1..m, i < m PROVE J[starts[i + 1] - 1] = Slash
  <2>1. i + 1 \in 1..m /\ i + 1 # 1
    BY <1>12
  <2> QED
    BY <1>11, <2>1
<1>13. Spread(J, levels, starts)
  BY <1>1, <1>9, <1>10, <1>11, <1>12 DEF Spread
<1> QED
  BY <1>7, <1>13

-----------------------------------------------------------------------------
(* The loop, level by level.                                               *)

\* A level of n bytes, whose byte k is level[k], is at a place, with a separator or the
\* end of the bytes behind it.
LevelAt(bytes, at, level, last) ==
  /\ level \in Seq(Byte) /\ Len(level) > 0
  /\ at + Len(level) <= Len(bytes) + 1
  /\ \A k \in 1..Len(level) : bytes[at + k - 1] = level[k]
  /\ IF last THEN at + Len(level) = Len(bytes) + 1
     ELSE at + Len(level) <= Len(bytes) /\ bytes[at + Len(level)] = Slash

\* The levels of a filter and of a name.
LEMMA LevelsOf ==
  /\ \A name \in TopicNames :
       /\ name \in Seq(Seq(Byte)) /\ name # <<>>
       /\ \A i \in 1..Len(name) : /\ name[i] \in Seq(Byte) /\ Len(name[i]) > 0
                                  /\ \A k \in 1..Len(name[i]) : name[i][k] \in Character
  /\ \A filter \in TopicFilters :
       /\ filter \in Seq(Seq(Byte)) /\ filter # <<>>
       /\ \A i \in 1..Len(filter) :
            /\ filter[i] \in Seq(Byte) /\ Len(filter[i]) > 0
            /\ \/ \A k \in 1..Len(filter[i]) : filter[i][k] \in Character
               \/ filter[i] = <<Plus>>
               \/ filter[i] = <<Hash>> /\ i = Len(filter)
<1>1. Character \subseteq Byte /\ Plus \in Byte /\ Hash \in Byte
  BY DEF Character, Byte, Plus, Hash
<1>2. \A l \in Levels : l \in Seq(Byte) /\ Len(l) > 0 /\ \A k \in 1..Len(l) : l[k] \in Character
  <2> SUFFICES ASSUME NEW l \in Levels
               PROVE  l \in Seq(Byte) /\ Len(l) > 0 /\ \A k \in 1..Len(l) : l[k] \in Character
    OBVIOUS
  <2>1. l \in Seq(Character) /\ l # <<>>
    BY DEF Levels
  <2>2. \A k \in 1..Len(l) : l[k] \in Character
    BY <2>1
  <2>3. Len(l) > 0
    BY <2>1, EmptySeq
  <2>4. l \in Seq(Byte)
    <3>1. l = [k \in 1..Len(l) |-> l[k]] /\ Len(l) \in Nat
      BY <2>1
    <3>2. \A k \in 1..Len(l) : l[k] \in Byte
      BY <1>1, <2>2
    <3> HIDE DEF Character
    <3> QED
      BY <3>1, <3>2
  <2> QED
    BY <2>2, <2>3, <2>4
<1>3. \A w \in {<<Plus>>, <<Hash>>} : w \in Seq(Byte) /\ Len(w) > 0
  <2>1. ASSUME NEW b \in Byte PROVE <<b>> \in Seq(Byte) /\ Len(<<b>>) > 0
    OBVIOUS
  <2> QED
    BY <1>1, <2>1
<1>4. ASSUME NEW S, NEW name \in Seq(S), name # <<>>, \A l \in S : l \in Seq(Byte)
      PROVE  name \in Seq(Seq(Byte)) /\ \A i \in 1..Len(name) : name[i] \in S
  <2>1. \A i \in 1..Len(name) : name[i] \in S
    OBVIOUS
  <2>2. name = [i \in 1..Len(name) |-> name[i]] /\ Len(name) \in Nat
    OBVIOUS
  <2>3. \A i \in 1..Len(name) : name[i] \in Seq(Byte)
    BY <1>4, <2>1
  <2> QED
    BY <2>1, <2>2, <2>3
<1>5. \A name \in TopicNames :
        /\ name \in Seq(Seq(Byte)) /\ name # <<>>
        /\ \A i \in 1..Len(name) : name[i] \in Levels
  <2>1. \A l \in Levels : l \in Seq(Byte)
    BY <1>2
  <2> QED
    BY <1>4, <2>1 DEF TopicNames
<1>6. \A filter \in TopicFilters :
        /\ filter \in Seq(Seq(Byte)) /\ filter # <<>>
        /\ \A i \in 1..Len(filter) : filter[i] \in Levels \cup {<<Plus>>, <<Hash>>}
        /\ \A i \in 1..Len(filter) : filter[i] = <<Hash>> => i = Len(filter)
  <2> SUFFICES ASSUME NEW filter \in TopicFilters
               PROVE  /\ filter \in Seq(Seq(Byte)) /\ filter # <<>>
                      /\ \A i \in 1..Len(filter) : filter[i] \in Levels \cup {<<Plus>>, <<Hash>>}
                      /\ \A i \in 1..Len(filter) : filter[i] = <<Hash>> => i = Len(filter)
    OBVIOUS
  <2>1. /\ filter \in Seq(Levels \cup {<<Plus>>, <<Hash>>}) /\ filter # <<>>
        /\ \A i \in 1..(Len(filter) - 1) : filter[i] # <<Hash>>
    BY DEF TopicFilters
  <2>2. \A l \in Levels \cup {<<Plus>>, <<Hash>>} : l \in Seq(Byte)
    BY <1>2, <1>3
  <2>3. filter \in Seq(Seq(Byte)) /\ \A i \in 1..Len(filter) : filter[i] \in Levels \cup {<<Plus>>, <<Hash>>}
    BY <1>4, <2>1, <2>2
  <2>4. \A i \in 1..Len(filter) : i # Len(filter) => i \in 1..(Len(filter) - 1)
    BY <2>3
  <2> QED
    BY <2>1, <2>3, <2>4
<1> QED
  BY <1>2, <1>3, <1>5, <1>6

\* Where a topic is spread, its levels are.
LEMMA SpreadLevels ==
  ASSUME NEW bytes, NEW levels \in Seq(Seq(Byte)), NEW starts, Spread(bytes, levels, starts),
         NEW i \in 1..Len(levels), \A j \in 1..Len(levels) : Len(levels[j]) > 0
  PROVE  /\ starts[i] \in Places /\ LevelAt(bytes, starts[i], levels[i], i = Len(levels))
         /\ i < Len(levels) => starts[i + 1] = starts[i] + Len(levels[i]) + 1
<1>1. PICK m \in Nat : m = Len(levels)
  OBVIOUS
<1>2. \A j \in 1..m : levels[j] \in Seq(Byte) /\ Len(levels[j]) \in Nat /\ Len(levels[j]) > 0
  BY <1>1
<1>3. PICK x \in Nat : x = Len(bytes)
  BY DEF Spread
<1>4. /\ \A j \in 1..(m + 1) : starts[j] \in Nat
      /\ starts[m + 1] = x + 2 /\ starts[i] \in Places
      /\ \A j \in 1..m : starts[j + 1] = starts[j] + Len(levels[j]) + 1 /\ starts[j + 1] <= x + 2
      /\ \A k \in 1..Len(levels[i]) : bytes[starts[i] + k - 1] = levels[i][k]
      /\ i < m => bytes[starts[i + 1] - 1] = Slash
  <2>1. /\ \A j \in 1..(Len(levels) + 1) : starts[j] \in Places
        /\ starts[Len(levels) + 1] = Len(bytes) + 2
        /\ \A j \in 1..Len(levels) :
             /\ starts[j + 1] = starts[j] + Len(levels[j]) + 1 /\ starts[j + 1] <= Len(bytes) + 2
             /\ \A k \in 1..Len(levels[j]) : bytes[starts[j] + k - 1] = levels[j][k]
             /\ j < Len(levels) => bytes[starts[j + 1] - 1] = Slash
    BY Zenon DEF Spread
  <2>2. /\ \A j \in 1..(m + 1) : starts[j] \in Places
        /\ starts[m + 1] = x + 2
        /\ \A j \in 1..m :
             /\ starts[j + 1] = starts[j] + Len(levels[j]) + 1 /\ starts[j + 1] <= x + 2
             /\ \A k \in 1..Len(levels[j]) : bytes[starts[j] + k - 1] = levels[j][k]
             /\ j < m => bytes[starts[j + 1] - 1] = Slash
    BY <1>1, <1>3, <2>1, Zenon
  <2>3. i \in 1..m /\ i \in 1..(m + 1) /\ \A j \in Places : j \in Nat
    BY <1>1 DEF Places
  <2> QED
    BY <2>2, <2>3, Zenon
<1>5. PICK a \in Nat, s \in Nat : a = Len(levels[i]) /\ s = starts[i] /\ a > 0
  BY <1>1, <1>2, <1>4 DEF Places
<1>6. starts[i + 1] = s + a + 1 /\ s + a + 1 <= x + 2
  BY <1>1, <1>4, <1>5
<1>7. CASE i = m
  <2>1. starts[i + 1] = x + 2
    BY <1>4, <1>7, Zenon
  <2>2. s + a = x + 1
    BY <1>6, <2>1
  <2> QED
    BY <1>1, <1>2, <1>3, <1>4, <1>5, <1>7, <2>2 DEF LevelAt
<1>8. CASE i < m
  <2>1. PICK b \in Nat : b > 0 /\ (s + a + 1) + b + 1 <= x + 2
    <3>1. i + 1 \in 1..m
      BY <1>1, <1>8
    <3>2. PICK b \in Nat : b = Len(levels[i + 1]) /\ b > 0
      BY <1>2, <3>1
    <3>3. starts[(i + 1) + 1] = starts[i + 1] + b + 1 /\ starts[(i + 1) + 1] <= x + 2
      BY <1>4, <3>1, <3>2
    <3> QED
      BY <1>6, <3>2, <3>3
  <2>2. s + a <= x
    BY <2>1
  <2>3. bytes[s + a] = Slash
    <3>1. starts[i + 1] - 1 = s + a
      BY <1>6
    <3> QED
      BY <1>4, <1>8, <3>1
  <2>4. i # m
    BY <1>8
  <2>5. s + a <= x + 1
    BY <2>2
  <2>6. levels[i] \in Seq(Byte) /\ Len(levels[i]) > 0
    BY <1>1, <1>2
  <2>7. LevelAt(bytes, starts[i], levels[i], i = Len(levels))
    BY <1>1, <1>3, <1>4, <1>5, <2>2, <2>3, <2>4, <2>5, <2>6, Zenon DEF LevelAt
  <2> QED
    BY <1>4, <1>5, <1>6, <2>7
<1> QED
  BY <1>1, <1>7, <1>8

\* No separators and wildcards.
Plain(level) == \A k \in 1..Len(level) : level[k] \in Character

\* Whether the loop that is at <<f, n>> ends with a match.
Matches(end, bytes, name, at) == MatchEnds(bytes, end[at][1], name, end[at][2])

\* Where the loop ends, it matches only if both are used up.
LEMMA LoopEnds ==
  ASSUME NEW A \in Seq(Byte), NEW B \in Seq(Byte), NEW end, FollowsLoop(end, A, B),
         NEW f \in Places, NEW n \in Places, f <= Len(A) + 1, n <= Len(B) + 1,
         MatchStops(A, f, B, n)
  PROVE  Matches(end, A, B, <<f, n>>) <=> f = Len(A) + 1 /\ n = Len(B) + 1
<1>1. f \in 1..(Len(A) + 1) /\ n \in 1..(Len(B) + 1)
  BY DEF Places
<1>2. end[<<f, n>>] = <<f, n>>
  BY <1>1 DEF FollowsLoop
<1>3. end[<<f, n>>][1] = f /\ end[<<f, n>>][2] = n
  BY <1>2
<1> QED
  BY <1>3 DEF Matches, MatchEnds

\* Otherwise it goes on with the next byte of the filter, behind what that one took.
LEMMA LoopTakes ==
  ASSUME NEW A \in Seq(Byte), NEW B \in Seq(Byte), NEW end, FollowsLoop(end, A, B),
         NEW f \in Places, NEW n \in Places, f <= Len(A) + 1, n <= Len(B) + 1,
         ~MatchStops(A, f, B, n)
  PROVE  end[<<f, n>>] = end[<<f + 1, MatchTakes(A, f, B, n) + 1>>]
<1>1. f \in 1..(Len(A) + 1) /\ n \in 1..(Len(B) + 1)
  BY DEF Places
<1> QED
  BY <1>1 DEF FollowsLoop

\* Two equal bytes are passed.
LEMMA LoopOn ==
  ASSUME NEW A \in Seq(Byte), NEW B \in Seq(Byte), NEW end, FollowsLoop(end, A, B),
         NEW f \in Places, NEW n \in Places, f <= Len(A), n <= Len(B),
         A[f] = B[n], A[f] # Plus, A[f] # Hash
  PROVE  end[<<f, n>>] = end[<<f + 1, n + 1>>]
<1>1. ~(f > Len(A)) /\ ~(n > Len(B)) /\ f <= Len(A) + 1 /\ n <= Len(B) + 1
  BY DEF Places
<1>2. ~MatchStops(A, f, B, n)
  BY <1>1 DEF MatchStops
<1>3. MatchTakes(A, f, B, n) = n
  BY DEF MatchTakes
<1> QED
  BY <1>1, <1>2, <1>3, LoopTakes

\* So are any number of them, within a level.
LEMMA LevelWalk ==
  ASSUME NEW A \in Seq(Byte), NEW B \in Seq(Byte), NEW end, FollowsLoop(end, A, B),
         NEW f \in Places, NEW n \in Places, NEW l, NEW w, NEW lf, NEW ln,
         LevelAt(A, f, l, lf), LevelAt(B, n, w, ln), Plain(l),
         NEW m \in Nat, m <= Len(l), m <= Len(w), \A k \in 1..m : l[k] = w[k]
  PROVE  end[<<f, n>>] = end[<<f + m, n + m>>]
<1>1. PICK a \in Nat, b \in Nat, x \in Nat, y \in Nat :
        /\ a = Len(l) /\ b = Len(w) /\ x = Len(A) /\ y = Len(B)
        /\ f + a <= x + 1 /\ n + b <= y + 1
        /\ \A k \in 1..a : A[f + k - 1] = l[k] /\ l[k] # Plus /\ l[k] # Hash
        /\ \A k \in 1..b : B[n + k - 1] = w[k]
  <2>1. \A k \in 1..Len(l) : l[k] # Plus /\ l[k] # Hash
    BY DEF Plain, Character
  <2>2. /\ l \in Seq(Byte) /\ f + Len(l) <= Len(A) + 1 /\ \A k \in 1..Len(l) : A[f + k - 1] = l[k]
        /\ w \in Seq(Byte) /\ n + Len(w) <= Len(B) + 1 /\ \A k \in 1..Len(w) : B[n + k - 1] = w[k]
    BY Zenon DEF LevelAt
  <2>3. \A v \in Seq(Byte) : Len(v) \in Nat
    OBVIOUS
  <2> QED
    BY <2>1, <2>2, <2>3, Zenon
<1> DEFINE S == {k \in Nat : k <= m => end[<<f, n>>] = end[<<f + k, n + k>>]}
<1>2. ASSUME NEW k \in Nat, \A j \in Nat : j < k => j \in S PROVE k \in S
  <2> SUFFICES ASSUME k <= m PROVE end[<<f, n>>] = end[<<f + k, n + k>>]
    OBVIOUS
  <2>1. CASE k = 0
    <3>1. f + k = f /\ n + k = n
      BY <2>1 DEF Places
    <3> QED
      BY <3>1
  <2>2. CASE k # 0
    <3>1. PICK j \in Nat : j = k - 1 /\ k = j + 1
      BY <2>2
    <3>2. j \in S /\ j <= m
      <4>1. j < k /\ j <= m
        BY <3>1
      <4> HIDE DEF S
      <4> QED
        BY <1>2, <4>1
    <3>3. end[<<f, n>>] = end[<<f + j, n + j>>]
      BY <3>2
    <3>4. k \in 1..a /\ k \in 1..b /\ k \in 1..m
      BY <1>1, <2>2
    <3>5. PICK g \in Places, h \in Places :
            g = f + j /\ h = n + j /\ g + 1 = f + k /\ h + 1 = n + k /\ g = f + k - 1 /\ h = n + k - 1
      BY <3>1 DEF Places
    <3>6. A[g] = B[h] /\ A[g] # Plus /\ A[g] # Hash
      <4>1. /\ A[f + k - 1] = l[k] /\ l[k] # Plus /\ l[k] # Hash
            /\ B[n + k - 1] = w[k] /\ l[k] = w[k]
        BY <1>1, <3>4, Zenon
      <4> QED
        BY <3>5, <4>1, Zenon
    <3>7. g <= x /\ h <= y
      <4>1. f + a <= x + 1 /\ n + b <= y + 1 /\ g = f + k - 1 /\ h = n + k - 1
        BY <1>1, <3>5, Zenon
      <4> QED
        BY <3>4, <4>1 DEF Places
    <3>8. end[<<g, h>>] = end[<<g + 1, h + 1>>]
      <4>1. g <= Len(A) /\ h <= Len(B)
        BY <1>1, <3>7
      <4> QED
        BY <3>6, <4>1, LoopOn
    <3> QED
      BY <3>3, <3>5, <3>8
  <2> QED
    BY <2>1, <2>2
<1> HIDE DEF S
<1>3. Nat \subseteq S
  BY <1>2, Induction
<1>4. m \in S
  BY <1>3
<1> QED
  BY <1>4 DEF S

\* A level that is the same, or any level for a "+".
LEMMA LevelPasses ==
  ASSUME NEW A \in Seq(Byte), NEW B \in Seq(Byte), NEW end, FollowsLoop(end, A, B),
         NEW f \in Places, NEW n \in Places, NEW l, NEW w, NEW lf, NEW ln,
         LevelAt(A, f, l, lf), LevelAt(B, n, w, ln), Plain(w), l = <<Plus>> \/ l = w
  PROVE  end[<<f, n>>] = end[<<f + Len(l), n + Len(w)>>]
<1>1. CASE l = w
  <2>1. Len(l) \in Nat /\ Len(l) = Len(w) /\ Plain(l)
    BY <1>1 DEF LevelAt
  <2>2. Len(l) <= Len(l) /\ Len(l) <= Len(w) /\ \A k \in 1..Len(l) : l[k] = w[k]
    BY <1>1, <2>1
  <2>3. end[<<f, n>>] = end[<<f + Len(l), n + Len(l)>>]
    BY <2>1, <2>2, LevelWalk
  <2> QED
    BY <2>1, <2>3
<1>2. CASE l = <<Plus>>
  <2>1. PICK b \in Nat, y \in Nat :
          /\ b = Len(w) /\ y = Len(B) /\ b > 0
          /\ n + b <= y + 1
          /\ \A k \in 1..b : B[n + k - 1] = w[k] /\ w[k] # Slash
          /\ n + b = y + 1 \/ (n + b <= y /\ B[n + b] = Slash)
    <3>1. \A k \in 1..Len(w) : w[k] # Slash
      BY DEF Plain, Character
    <3> QED
      BY <3>1 DEF LevelAt
  <2>2. Len(l) = 1 /\ A[f] = Plus /\ f <= Len(A)
    <3>1. Len(l) = 1 /\ l[1] = Plus /\ f + 1 - 1 = f
      BY <1>2 DEF Places
    <3>2. A[f + 1 - 1] = l[1] /\ f + 1 <= Len(A) + 1
      BY <3>1 DEF LevelAt
    <3> QED
      BY <3>1, <3>2 DEF Places
  <2>3. n \in 1..y /\ B[n] # Slash
    <3>1. 1 \in 1..b /\ n + 1 - 1 = n
      BY <2>1 DEF Places
    <3> QED
      BY <2>1, <3>1 DEF Places
  <2>4. PICK e \in n..y : /\ e = LevelEnd(B, n) /\ \A j \in (n + 1)..e : B[j] # Slash
                          /\ e = y \/ B[e + 1] = Slash
    BY <2>1, <2>3, LevelEndIs
  <2>5. e = n + b - 1
    <3>1. CASE e < n + b - 1
      <4>1. PICK k \in 1..b : e + 1 = n + k - 1
        <5>1. e + 2 - n \in 1..b /\ e + 1 = n + (e + 2 - n) - 1
          BY <2>1, <2>4, <3>1 DEF Places
        <5> QED
          BY <5>1
      <4>2. B[e + 1] # Slash
        BY <2>1, <4>1
      <4>3. e # y
        BY <2>1, <3>1 DEF Places
      <4> QED
        BY <2>4, <4>2, <4>3
    <3>2. CASE e > n + b - 1
      <4>1. n + b \in (n + 1)..e
        BY <2>1, <3>2 DEF Places
      <4>2. B[n + b] = Slash
        BY <2>1, <2>4, <3>2 DEF Places
      <4> QED
        BY <2>4, <4>1, <4>2
    <3>3. e \in Int /\ n + b - 1 \in Int
      BY <2>1, <2>4 DEF Places
    <3> QED
      BY <3>1, <3>2, <3>3
  <2>6. ~MatchStops(A, f, B, n) /\ MatchTakes(A, f, B, n) = e
    <3>1. ~(f > Len(A)) /\ ~(n > Len(B))
      BY <2>1, <2>2, <2>3 DEF Places
    <3>2. ~MatchStops(A, f, B, n)
      BY <2>2, <2>3, <3>1 DEF MatchStops
    <3>3. MatchTakes(A, f, B, n) = e
      BY <2>2, <2>4 DEF MatchTakes, Plus, Hash
    <3> QED
      BY <3>2, <3>3
  <2>7. f <= Len(A) + 1 /\ n <= Len(B) + 1
    BY <2>1, <2>2, <2>3 DEF Places
  <2>8. end[<<f, n>>] = end[<<f + 1, e + 1>>]
    BY <2>6, <2>7, LoopTakes
  <2>9. e + 1 = n + b
    BY <2>1, <2>5 DEF Places
  <2> QED
    BY <2>1, <2>2, <2>8, <2>9
<1> QED
  BY <1>1, <1>2

\* Another level ends the loop before the ends of both.
LEMMA LevelFails ==
  ASSUME NEW A \in Seq(Byte), NEW B \in Seq(Byte), NEW end, FollowsLoop(end, A, B),
         NEW f \in Places, NEW n \in Places, NEW l, NEW w, NEW lf, NEW ln,
         LevelAt(A, f, l, lf), LevelAt(B, n, w, ln), Plain(l), Plain(w), l # w
  PROVE  ~Matches(end, A, B, <<f, n>>)
<1>1. PICK a \in Nat, b \in Nat, x \in Nat, y \in Nat :
        /\ a = Len(l) /\ b = Len(w) /\ x = Len(A) /\ y = Len(B)
        /\ f + a <= x + 1 /\ n + b <= y + 1
        /\ \A k \in 1..a : A[f + k - 1] = l[k]
        /\ \A k \in 1..b : B[n + k - 1] = w[k]
        /\ f + a = x + 1 \/ (f + a <= x /\ A[f + a] = Slash)
        /\ n + b = y + 1 \/ (n + b <= y /\ B[n + b] = Slash)
  BY DEF LevelAt
<1>2. /\ \A k \in 1..a : l[k] # Slash /\ l[k] # Plus /\ l[k] # Hash
      /\ \A k \in 1..b : w[k] # Slash
  BY <1>1 DEF Plain, Character
<1>3. \A m \in Nat : m <= a /\ m <= b /\ (\A k \in 1..m : l[k] = w[k]) =>
        (Matches(end, A, B, <<f, n>>) <=> Matches(end, A, B, <<f + m, n + m>>))
  <2> SUFFICES ASSUME NEW m \in Nat, m <= a, m <= b, \A k \in 1..m : l[k] = w[k]
               PROVE  end[<<f, n>>] = end[<<f + m, n + m>>]
    BY Zenon DEF Matches
  <2>1. m <= Len(l) /\ m <= Len(w)
    BY <1>1
  <2> QED
    BY <2>1, LevelWalk
<1>4. ASSUME NEW m \in Nat, m <= a, m <= b, \A k \in 1..m : l[k] = w[k],
             MatchStops(A, f + m, B, n + m), ~(f + m = x + 1 /\ n + m = y + 1)
      PROVE  ~Matches(end, A, B, <<f, n>>)
  <2>1. f + m \in Places /\ n + m \in Places /\ f + m <= x + 1 /\ n + m <= y + 1
    BY <1>1, <1>4 DEF Places
  <2>2. ~Matches(end, A, B, <<f + m, n + m>>)
    <3>1. f + m <= Len(A) + 1 /\ n + m <= Len(B) + 1
      BY <1>1, <2>1
    <3>2. Matches(end, A, B, <<f + m, n + m>>) <=> f + m = Len(A) + 1 /\ n + m = Len(B) + 1
      BY <1>4, <2>1, <3>1, LoopEnds
    <3> QED
      BY <1>1, <1>4, <3>2
  <2> QED
    BY <1>3, <1>4, <2>2
<1> DEFINE X == {k \in Nat : k < a /\ k < b /\ l[k + 1] # w[k + 1]}
<1>5. CASE X # {}
  <2>1. PICK m \in X : \A j \in X : m <= j
    <3>1. X \in SUBSET Nat
      OBVIOUS
    <3> HIDE DEF X
    <3> QED
      BY <1>5, <3>1, Least
  <2>2. ASSUME NEW k \in 1..m PROVE l[k] = w[k]
    <3> SUFFICES ASSUME l[k] # w[k] PROVE FALSE
      OBVIOUS
    <3>1. k - 1 \in Nat /\ (k - 1) + 1 = k /\ k - 1 < m
      OBVIOUS
    <3>2. k - 1 \in X
      BY <3>1
    <3>3. m <= k - 1
      <4> HIDE DEF X
      <4> QED
        BY <2>1, <3>2
    <3> QED
      BY <3>1, <3>3
  <2>3. m + 1 \in 1..a /\ m + 1 \in 1..b /\ f + m = f + (m + 1) - 1 /\ n + m = n + (m + 1) - 1
    BY DEF Places
  <2>4. A[f + m] = l[m + 1] /\ B[n + m] = w[m + 1] /\ l[m + 1] # w[m + 1]
    BY <1>1, <2>3
  <2>5. MatchStops(A, f + m, B, n + m)
    BY <1>2, <2>3, <2>4 DEF MatchStops
  <2>6. ~(f + m = x + 1)
    BY <1>1, <2>3 DEF Places
  <2> QED
    BY <1>4, <2>2, <2>5, <2>6
<1>6. CASE X = {}
  <2>1. \A k \in Nat : k < a /\ k < b => l[k + 1] = w[k + 1]
    BY <1>6
  <2>2. ASSUME NEW m \in Nat, m <= a, m <= b, NEW k \in 1..m PROVE l[k] = w[k]
    <3>1. k - 1 \in Nat /\ (k - 1) + 1 = k /\ k - 1 < a /\ k - 1 < b
      BY <2>2
    <3> QED
      BY <2>1, <3>1
  <2>3. a # b
    <3> SUFFICES ASSUME a = b PROVE FALSE
      OBVIOUS
    <3>1. \A k \in 1..a : l[k] = w[k]
      BY <2>2
    <3>2. l \in Seq(Byte) /\ w \in Seq(Byte)
      BY DEF LevelAt
    <3>3. l = [k \in 1..a |-> l[k]] /\ w = [k \in 1..a |-> w[k]]
      <4>1. \A v \in Seq(Byte) : v = [k \in 1..Len(v) |-> v[k]]
        OBVIOUS
      <4> QED
        BY <1>1, <3>2, <4>1
    <3>4. [k \in 1..a |-> l[k]] = [k \in 1..a |-> w[k]]
      BY <3>1
    <3> QED
      BY <3>3, <3>4
  <2>4. CASE a < b
    <3>1. \A k \in 1..a : l[k] = w[k]
      BY <2>2, <2>4
    <3>2. a + 1 \in 1..b /\ n + (a + 1) - 1 = n + a /\ n + a <= y
      BY <1>1, <2>4 DEF Places
    <3>3. B[n + a] # Slash
      BY <1>1, <1>2, <3>2
    <3>4. f + a = x + 1 => f + a > Len(A)
      BY <1>1
    <3>5. MatchStops(A, f + a, B, n + a)
      BY <1>1, <3>3, <3>4 DEF MatchStops, Slash, Plus, Hash
    <3>6. ~(n + a = y + 1)
      BY <3>2 DEF Places
    <3> QED
      BY <1>4, <2>4, <3>1, <3>5, <3>6
  <2>5. CASE b < a
    <3>1. \A k \in 1..b : l[k] = w[k]
      BY <2>2, <2>5
    <3>2. b + 1 \in 1..a /\ f + (b + 1) - 1 = f + b /\ f + b <= x
      BY <1>1, <2>5 DEF Places
    <3>3. A[f + b] # Slash
      BY <1>1, <1>2, <3>2
    <3>4. n + b = y + 1 => n + b > Len(B)
      BY <1>1
    <3>5. MatchStops(A, f + b, B, n + b)
      BY <1>1, <3>3, <3>4 DEF MatchStops
    <3>6. ~(f + b = x + 1)
      BY <3>2 DEF Places
    <3> QED
      BY <1>4, <2>5, <3>1, <3>5, <3>6
  <2> QED
    BY <2>3, <2>4, <2>5
<1> QED
  BY <1>5, <1>6

\* A last "#" takes all the levels there are.
LEMMA AllTaken ==
  ASSUME NEW A \in Seq(Byte), NEW B \in Seq(Byte), NEW end, FollowsLoop(end, A, B),
         NEW f \in Places, NEW n \in Places, NEW w, NEW ln,
         LevelAt(A, f, <<Hash>>, TRUE), LevelAt(B, n, w, ln), Plain(w)
  PROVE  Matches(end, A, B, <<f, n>>)
<1>1. PICK x \in Nat, y \in Nat : x = Len(A) /\ y = Len(B)
  OBVIOUS
<1>2. f = x /\ A[f] = Hash
  <2>1. Len(<<Hash>>) = 1 /\ <<Hash>>[1] = Hash /\ f + 1 - 1 = f
    BY DEF Places
  <2>2. f + 1 = x + 1 /\ A[f + 1 - 1] = Hash
    BY <1>1, <2>1 DEF LevelAt
  <2> QED
    BY <2>1, <2>2 DEF Places
<1>3. n <= y /\ B[n] # Slash
  <2>1. PICK b \in Nat : b = Len(w) /\ b > 0 /\ n + b <= y + 1 /\ B[n + 1 - 1] = w[1] /\ w[1] # Slash
    BY <1>1 DEF LevelAt, Plain, Character
  <2> QED
    BY <2>1 DEF Places
<1>4. ~MatchStops(A, f, B, n) /\ MatchTakes(A, f, B, n) = y
  <2>1. ~(f > Len(A)) /\ ~(n > Len(B))
    BY <1>1, <1>2, <1>3 DEF Places
  <2> QED
    BY <1>1, <1>2, <1>3, <2>1 DEF MatchStops, MatchTakes, Plus, Hash
<1>5. end[<<f, n>>] = end[<<x + 1, y + 1>>]
  <2>1. f <= Len(A) + 1 /\ n <= Len(B) + 1
    BY <1>1, <1>2, <1>3 DEF Places
  <2>2. end[<<f, n>>] = end[<<f + 1, MatchTakes(A, f, B, n) + 1>>]
    BY <1>4, <2>1, LoopTakes
  <2> QED
    BY <1>2, <1>4, <2>2
<1>6. MatchStops(A, x + 1, B, y + 1)
  BY <1>1 DEF MatchStops
<1>7. Matches(end, A, B, <<x + 1, y + 1>>)
  <2>1. x + 1 \in Places /\ y + 1 \in Places
    BY DEF Places
  <2> QED
    <3>1. x + 1 <= Len(A) + 1 /\ y + 1 <= Len(B) + 1
      BY <1>1
    <3>2. Matches(end, A, B, <<x + 1, y + 1>>) <=> x + 1 = Len(A) + 1 /\ y + 1 = Len(B) + 1
      BY <1>6, <2>1, <3>1, LoopEnds
    <3> QED
      BY <1>1, <3>2
<1> QED
  BY <1>5, <1>7 DEF Matches

\* Behind two levels: the next ones, or the end.
LEMMA BehindLevels ==
  ASSUME NEW A \in Seq(Byte), NEW B \in Seq(Byte), NEW end, FollowsLoop(end, A, B),
         NEW f \in Places, NEW n \in Places, NEW l, NEW w, NEW lf \in BOOLEAN, NEW ln \in BOOLEAN,
         LevelAt(A, f, l, lf), LevelAt(B, n, w, ln)
  PROVE  /\ lf \/ ln => (Matches(end, A, B, <<f + Len(l), n + Len(w)>>) <=> lf /\ ln)
         /\ ~lf /\ ~ln => end[<<f + Len(l), n + Len(w)>>] = end[<<f + Len(l) + 1, n + Len(w) + 1>>]
<1>1. PICK g \in Places, h \in Places, x \in Nat, y \in Nat :
        /\ g = f + Len(l) /\ h = n + Len(w) /\ x = Len(A) /\ y = Len(B)
        /\ g <= x + 1 /\ h <= y + 1
        /\ lf => g = x + 1
        /\ ~lf => g <= x /\ A[g] = Slash
        /\ ln => h = y + 1
        /\ ~ln => h <= y /\ B[h] = Slash
  BY DEF LevelAt, Places
<1>2. ASSUME lf \/ ln
      PROVE  Matches(end, A, B, <<g, h>>) <=> lf /\ ln
  <2>1. MatchStops(A, g, B, h)
    BY <1>1, <1>2 DEF MatchStops, Places
  <2>2. Matches(end, A, B, <<g, h>>) <=> g = x + 1 /\ h = y + 1
    <3>1. g <= Len(A) + 1 /\ h <= Len(B) + 1
      BY <1>1
    <3>2. Matches(end, A, B, <<g, h>>) <=> g = Len(A) + 1 /\ h = Len(B) + 1
      BY <2>1, <3>1, LoopEnds
    <3> QED
      BY <1>1, <3>2
  <2>3. (g = x + 1 <=> lf) /\ (h = y + 1 <=> ln)
    BY <1>1 DEF Places
  <2> QED
    BY <2>2, <2>3
<1>3. ASSUME ~lf, ~ln
      PROVE  end[<<g, h>>] = end[<<g + 1, h + 1>>]
  <2>1. A[g] = B[h] /\ A[g] # Plus /\ A[g] # Hash /\ g <= x /\ h <= y
    BY <1>1, <1>3 DEF Slash, Plus, Hash
  <2> QED
    <3>1. g <= Len(A) /\ h <= Len(B)
      BY <1>1, <2>1
    <3> QED
      BY <2>1, <3>1, LoopOn
<1> QED
  BY <1>1, <1>2, <1>3

\* The loop finds exactly what the levels mean, for every filter and every name.
LEMMA MatchIsMeant ==
  ASSUME NEW filter \in TopicFilters, NEW name \in TopicNames
  PROVE  IsTopicMatched(Joined(filter), Joined(name)) <=> Means(filter, name)
<1>1. /\ filter \in Seq(Seq(Byte)) /\ filter # <<>>
      /\ name \in Seq(Seq(Byte)) /\ name # <<>>
  BY LevelsOf
<1>2. PICK p \in Places, q \in Places : p = Len(filter) /\ q = Len(name)
  BY <1>1, EmptySeq DEF Places
<1>3. /\ \A i \in 1..p : /\ filter[i] \in Seq(Byte) /\ Len(filter[i]) > 0
                         /\ Plain(filter[i]) \/ filter[i] = <<Plus>> \/ (filter[i] = <<Hash>> /\ i = p)
      /\ \A i \in 1..q : name[i] \in Seq(Byte) /\ Len(name[i]) > 0 /\ Plain(name[i])
  BY <1>2, LevelsOf DEF Plain
<1>4. PICK s, t : Spread(Joined(filter), filter, s) /\ Spread(Joined(name), name, t)
  BY <1>1, JoinedSpread
<1>5. PICK A \in Seq(Byte), B \in Seq(Byte) :
        A = Joined(filter) /\ B = Joined(name) /\ Spread(A, filter, s) /\ Spread(B, name, t)
  BY <1>4 DEF Spread
<1>6. PICK end : /\ FollowsLoop(end, A, B)
                 /\ IsTopicMatched(A, B) <=> Matches(end, A, B, <<1, 1>>)
  BY LoopIs DEF Matches
<1>7. ASSUME NEW i \in 1..p
      PROVE  /\ s[i] \in Places /\ LevelAt(A, s[i], filter[i], i = p)
             /\ i < p => s[i + 1] = s[i] + Len(filter[i]) + 1
  <2>1. i \in 1..Len(filter) /\ \A j \in 1..Len(filter) : Len(filter[j]) > 0
    BY <1>2, <1>3
  <2>2. /\ s[i] \in Places /\ LevelAt(A, s[i], filter[i], i = Len(filter))
        /\ i < Len(filter) => s[i + 1] = s[i] + Len(filter[i]) + 1
    BY <1>1, <1>5, <2>1, SpreadLevels
  <2> QED
    BY <1>2, <2>2
<1>8. ASSUME NEW i \in 1..q
      PROVE  /\ t[i] \in Places /\ LevelAt(B, t[i], name[i], i = q)
             /\ i < q => t[i + 1] = t[i] + Len(name[i]) + 1
  <2>1. i \in 1..Len(name) /\ \A j \in 1..Len(name) : Len(name[j]) > 0
    BY <1>2, <1>3
  <2>2. /\ t[i] \in Places /\ LevelAt(B, t[i], name[i], i = Len(name))
        /\ i < Len(name) => t[i + 1] = t[i] + Len(name[i]) + 1
    BY <1>1, <1>5, <2>1, SpreadLevels
  <2> QED
    BY <1>2, <2>2
<1>9. s[1] = 1 /\ t[1] = 1
  BY <1>5 DEF Spread
<1> DEFINE Common == {i \in Nat : i \in 1..p /\ i \in 1..q}
           Same(i) == filter[i] = <<Plus>> \/ filter[i] = name[i]
           Here(i) == <<s[i], t[i]>>
           After(i) == <<s[i] + Len(filter[i]), t[i] + Len(name[i])>>
<1>10. ASSUME NEW i \in Common
       PROVE  /\ Same(i) => end[Here(i)] = end[After(i)]
              /\ ~Same(i) /\ filter[i] # <<Hash>> => ~Matches(end, A, B, Here(i))
              /\ filter[i] = <<Hash>> /\ i = p => Matches(end, A, B, Here(i))
              /\ i = p \/ i = q => (Matches(end, A, B, After(i)) <=> i = p /\ i = q)
              /\ i # p /\ i # q => end[After(i)] = end[Here(i + 1)]
  <2>1. PICK f \in Places, n \in Places, l \in Seq(Byte), w \in Seq(Byte) :
          f = s[i] /\ n = t[i] /\ l = filter[i] /\ w = name[i]
    BY <1>3, <1>7, <1>8
  <2>2. LevelAt(A, f, l, i = p) /\ LevelAt(B, n, w, i = q) /\ Plain(w)
    BY <1>3, <1>7, <1>8, <2>1
  <2>3. l = <<Plus>> \/ l = w => end[<<f, n>>] = end[<<f + Len(l), n + Len(w)>>]
    BY <1>6, <2>2, LevelPasses
  <2>4. ASSUME l # <<Plus>>, l # w, l # <<Hash>> PROVE ~Matches(end, A, B, <<f, n>>)
    <3>1. Plain(l)
      BY <1>3, <2>1, <2>4
    <3> QED
      BY <1>6, <2>2, <2>4, <3>1, LevelFails
  <2>5. ASSUME l = <<Hash>>, i = p PROVE Matches(end, A, B, <<f, n>>)
    <3>1. (i = p) = TRUE
      BY <2>5
    <3>2. LevelAt(A, f, <<Hash>>, TRUE)
      BY <2>2, <2>5, <3>1
    <3> QED
      BY <1>6, <2>2, <3>2, AllTaken
  <2>6. /\ i = p \/ i = q => (Matches(end, A, B, <<f + Len(l), n + Len(w)>>) <=> i = p /\ i = q)
        /\ i # p /\ i # q => end[<<f + Len(l), n + Len(w)>>] = end[<<f + Len(l) + 1, n + Len(w) + 1>>]
    <3>1. PICK lf \in BOOLEAN, ln \in BOOLEAN : (lf <=> i = p) /\ (ln <=> i = q)
      OBVIOUS
    <3>2. LevelAt(A, f, l, lf) /\ LevelAt(B, n, w, ln)
      BY <2>2, <3>1 DEF LevelAt
    <3>3. /\ lf \/ ln => (Matches(end, A, B, <<f + Len(l), n + Len(w)>>) <=> lf /\ ln)
          /\ ~lf /\ ~ln => end[<<f + Len(l), n + Len(w)>>] = end[<<f + Len(l) + 1, n + Len(w) + 1>>]
      BY SMTT(30), <1>6, <3>2, BehindLevels
    <3> QED
      BY <3>1, <3>3
  <2>7. i # p /\ i # q => s[i + 1] = f + Len(l) + 1 /\ t[i + 1] = n + Len(w) + 1
    BY <1>7, <1>8, <2>1 DEF Places
  <2> QED
    BY <2>1, <2>3, <2>4, <2>5, <2>6, <2>7
<1>11. \A i \in Common : filter[i] = <<Hash>> => i = p
  <2>1. <<Hash>> # <<Plus>> /\ Len(<<Hash>>) = 1 /\ <<Hash>>[1] = Hash /\ Hash \notin Character
    BY DEF Hash, Plus, Character
  <2>2. ~Plain(<<Hash>>)
    BY <2>1 DEF Plain
  <2> QED
    BY <1>3, <2>1, <2>2
<1> HIDE DEF Same, Here, After
<1>12. ASSUME NEW m \in Common, \A j \in Common : j < m => Same(j)
       PROVE  Matches(end, A, B, <<1, 1>>) <=> Matches(end, A, B, Here(m))
  <2> DEFINE S == {i \in Nat : i \in Common /\ i <= m => end[<<1, 1>>] = end[Here(i)]}
  <2>1. ASSUME NEW i \in Nat, \A j \in Nat : j < i => j \in S PROVE i \in S
    <3> SUFFICES ASSUME i \in Common, i <= m PROVE end[<<1, 1>>] = end[Here(i)]
      OBVIOUS
    <3>1. CASE i = 1
      BY <1>9, <3>1 DEF Here
    <3>2. CASE i # 1
      <4>1. PICK j \in Common : j + 1 = i /\ j < i /\ j # p /\ j # q /\ j < m /\ j <= m
        <5>1. i - 1 \in Common /\ (i - 1) + 1 = i /\ i - 1 < i /\ i - 1 # p /\ i - 1 # q /\ i - 1 < m /\ i - 1 <= m
          BY <3>2 DEF Places
        <5> QED
          BY <5>1
      <4>2. j \in S
        BY <2>1, <4>1
      <4>3. end[<<1, 1>>] = end[Here(j)]
        BY <4>1, <4>2
      <4>4. end[Here(j)] = end[After(j)] /\ end[After(j)] = end[Here(i)]
        BY <1>10, <1>12, <4>1
      <4> QED
        BY <4>3, <4>4
    <3> QED
      BY <3>1, <3>2
  <2> HIDE DEF S
  <2>2. m \in S
    <3>1. Nat \subseteq S
      BY <2>1, Induction
    <3> QED
      BY <3>1
  <2>3. end[<<1, 1>>] = end[Here(m)]
    BY <2>2 DEF S
  <2> QED
    BY <2>3 DEF Matches
<1>13. Matches(end, A, B, <<1, 1>>) <=> Means(filter, name)
  <2> DEFINE Bad == {i \in Common : ~Same(i) /\ filter[i] # <<Hash>>}
  <2>1. CASE Bad # {}
    <3>1. PICK m \in Bad : \A j \in Bad : m <= j
      <4>1. Bad \in SUBSET Nat
        OBVIOUS
      <4> HIDE DEF Bad
      <4> QED
        BY <2>1, <4>1, Least
    <3>2. ASSUME NEW j \in Common, j < m PROVE Same(j)
      <4>1. j \notin Bad
        <5>1. ~(m <= j)
          BY <3>2
        <5> HIDE DEF Bad
        <5> QED
          BY <3>1, <5>1
      <4>2. filter[j] # <<Hash>>
        <5>1. j # p
          BY <3>2
        <5> QED
          BY <1>11, <5>1
      <4> QED
        BY <4>1, <4>2
    <3>3. ~Matches(end, A, B, <<1, 1>>)
      <4>1. m \in Common /\ ~Same(m) /\ filter[m] # <<Hash>>
        OBVIOUS
      <4> QED
        BY <1>10, <1>12, <3>2, <4>1
    <3>4. ~Means(filter, name)
      <4>1. m \in 1..p /\ filter[m] # <<Plus>> /\ filter[m] # name[m] /\ filter[m] # <<Hash>>
        BY DEF Same
      <4>2. filter[p] = <<Hash>> => m \in 1..(p - 1)
        BY <4>1 DEF Places
      <4> QED
        BY <1>2, <4>1, <4>2 DEF Means
    <3> QED
      BY <3>3, <3>4
  <2>2. CASE Bad = {}
    <3>1. \A i \in Common : Same(i) \/ (filter[i] = <<Hash>> /\ i = p)
      BY <1>11, <2>2
    <3>2. PICK m \in Common : (p <= q => m = p) /\ (q <= p => m = q)
      <4>1. CASE p <= q
        <5>1. p \in Common
          BY <4>1 DEF Places
        <5> QED
          BY <4>1, <5>1 DEF Places
      <4>2. CASE q < p
        <5>1. q \in Common
          BY <4>2 DEF Places
        <5> QED
          BY <4>2, <5>1 DEF Places
      <4> QED
        BY <4>1, <4>2 DEF Places
    <3>3. Matches(end, A, B, <<1, 1>>) <=> Matches(end, A, B, Here(m))
      <4>1. \A j \in Common : j < m => Same(j)
        BY <3>1
      <4> QED
        BY <1>12, <4>1
    <3>4. CASE filter[m] = <<Hash>>
      <4>1. m = p /\ p <= q
        BY <1>11, <3>4
      <4>2. \A i \in 1..(p - 1) : filter[i] = <<Plus>> \/ filter[i] = name[i]
        <5> SUFFICES ASSUME NEW i \in 1..(p - 1) PROVE Same(i)
          BY DEF Same
        <5>1. i \in Common /\ i # p
          BY <4>1 DEF Places
        <5> QED
          BY <3>1, <5>1
      <4>3. Means(filter, name)
        BY <1>2, <3>4, <4>1, <4>2 DEF Means
      <4> QED
        BY <1>10, <3>3, <3>4, <4>1, <4>3
    <3>5. CASE filter[m] # <<Hash>>
      <4>1. Same(m)
        BY <3>1, <3>5
      <4>2. m = p \/ m = q
        BY <3>2 DEF Places
      <4>3. Matches(end, A, B, Here(m)) <=> p = q
        <5>1. end[Here(m)] = end[After(m)]
          BY <1>10, <4>1
        <5>2. Matches(end, A, B, After(m)) <=> m = p /\ m = q
          BY <1>10, <4>2
        <5>3. m = p /\ m = q <=> p = q
          BY <3>2 DEF Places
        <5> QED
          BY <5>1, <5>2, <5>3 DEF Matches
      <4>4. Means(filter, name) <=> p = q
        <5>1. CASE filter[p] = <<Hash>>
          <6>1. q < p
            BY <3>2, <3>5, <5>1 DEF Places
          <6> QED
            BY <1>2, <5>1, <6>1 DEF Means, Places
        <5>2. CASE filter[p] # <<Hash>>
          <6>1. p = q => \A i \in 1..p : filter[i] = <<Plus>> \/ filter[i] = name[i]
            <7> SUFFICES ASSUME p = q, NEW i \in 1..p PROVE Same(i)
              BY DEF Same
            <7>1. i \in Common
              OBVIOUS
            <7> QED
              BY <3>1, <5>2, <7>1
          <6> QED
            BY <1>2, <5>2, <6>1 DEF Means
        <5> QED
          BY <5>1, <5>2
      <4> QED
        BY <3>3, <4>3, <4>4
    <3> QED
      BY <3>4, <3>5
  <2> QED
    BY <2>1, <2>2
<1> QED
  BY <1>5, <1>6, <1>13

\* A message reaches exactly the handlers whose filter means its topic, whatever the
\* filters and the names, of any number of levels of any length.
THEOREM FilterIsMeant == PortSpec => []TopicMatchMeans
<1>1. TopicMatchMeans
  <2> SUFFICES ASSUME NEW filter \in Filters, NEW name \in Names
               PROVE  IsTopicMatched(Joined(filter), Joined(name)) <=> Means(filter, name)
    BY DEF TopicMatchMeans
  <2>1. filter \in TopicFilters /\ name \in TopicNames
    BY TopicsAssumption
  <2> QED
    BY <2>1, MatchIsMeant
<1> QED
  BY <1>1, PTL DEF PortSpec

-----------------------------------------------------------------------------
(* The packets on the wire.                                                *)

\* It does not matter which two of three are joined first.
LEMMA Associates ==
  ASSUME NEW s \in Seq(Byte), NEW t \in Seq(Byte), NEW u \in Seq(Byte)
  PROVE  (s \o t) \o u = s \o (t \o u)
  OBVIOUS

\* The bytes of a packet: a header byte, the length of what follows, and that.
Framed(b, n) ==
  /\ b \in Seq(Byte) /\ n \in Nat /\ n < MaxLength
  /\ Len(b) = 1 + LengthSize(n) + n
  /\ Holds(b, 2, WriteLen(n))

\* A packet that is wrapped is framed.
LEMMA WrappedIsFramed ==
  ASSUME NEW p, NEW header, NEW body \in Seq(Byte), Wrapped(p, header, body)
  PROVE  Framed(p, Len(body))
<1>1. PICK n \in Nat, l \in Nat : n = Len(body) /\ l = LengthSize(n)
  <2>1. Len(body) \in Nat
    OBVIOUS
  <2>2. LengthSize(Len(body)) \in Nat
    BY <2>1, SizeIs
  <2> QED
    BY <2>1, <2>2, Zenon
<1>2. /\ p \in Seq(Byte) /\ n < MaxLength /\ Holds(p, 2, WriteLen(n))
      /\ Start(p) = 2 + l /\ End(p) = Start(p) + n /\ End(p) = Len(p) + 1
  BY <1>1, Zenon DEF Wrapped
<1>3. Len(p) = 1 + l + n
  <2>1. PICK k \in Nat : k = Len(p)
    BY <1>2
  <2>2. (2 + l) + n = k + 1
    BY <1>2, <2>1, Zenon
  <2>3. k = 1 + l + n
    BY <2>2
  <2> QED
    BY <2>1, <2>3
<1> QED
  BY <1>1, <1>2, <1>3, Zenon DEF Framed

\* The broker may write the longest packet there is.
LEMMA RoomIs == Room \in Nat /\ Room < MaxLength /\ ~(Room < 4)
  BY SMT DEF Room, MaxLength

\* The first byte says what a packet is.
LEMMA TypeDecides ==
  ASSUME NEW b, NEW type, NEW qos, NEW dup, NEW retained, HeaderSays(b[1], type, qos, dup, retained)
  PROVE  /\ type = "PUBLISH" => Understood(b) = DeserializePublish(b)
         /\ type = "SUBACK" => Understood(b) = DeserializeSuback(b, 1)
         /\ type = "UNSUBACK" => Understood(b) = DeserializeUnsuback(b)
         /\ type = "PUBACK" => Understood(b) = DeserializeAck(b)
         /\ type = "PINGRESP" => Understood(b) = [type |-> "PINGRESP"]
<1>1. TypeOf(b[1]) = type
  BY DEF HeaderSays
<1> QED
  BY <1>1 DEF Understood

\* A message is understood as it was sent.
LEMMA PublishUnderstood ==
  ASSUME NEW p \in PublishPackets, p.qos = 0 => p.id = 0, OnWire(p) # <<>>
  PROVE  \E n \in Nat : Framed(OnWire(p), n) /\ Understood(OnWire(p)) = p
<1>1. OnWire(p) = SerializePublish(p, Room)
  BY DEF PublishPackets, OnWire
<1>2. PICK b : b = OnWire(p) /\ b = SerializePublish(p, Room) /\ b # <<>>
  BY <1>1
<1>3. PublishBody(p) \in Seq(Byte)
  BY PublishBodyIs, Zenon
<1>4. /\ Wrapped(b, Header("PUBLISH", p.qos, p.dup, p.retained), PublishBody(p))
      /\ HeaderSays(Header("PUBLISH", p.qos, p.dup, p.retained), "PUBLISH", p.qos, p.dup, p.retained)
  BY <1>2, RoomIs, PublishWraps, Zenon
<1>5. Framed(b, Len(PublishBody(p))) /\ Len(PublishBody(p)) \in Nat
  BY <1>3, <1>4, WrappedIsFramed
<1>6. b[1] = Header("PUBLISH", p.qos, p.dup, p.retained)
  BY <1>4, Zenon DEF Wrapped
<1>7. Understood(b) = DeserializePublish(b)
  BY <1>4, <1>6, TypeDecides, Zenon
<1>8. DeserializePublish(b) = [p EXCEPT !.id = IF p.qos = 0 THEN 0 ELSE @]
  BY <1>2, RoomIs, PublishReadBack, Zenon
<1>9. [p EXCEPT !.id = IF p.qos = 0 THEN 0 ELSE @] = p
  <2>1. (IF p.qos = 0 THEN 0 ELSE p.id) = p.id
    OBVIOUS
  <2>2. p = [p EXCEPT !.id = p.id]
    BY DEF PublishPackets
  <2> QED
    BY <2>1, <2>2
<1> QED
  BY <1>2, <1>5, <1>7, <1>8, <1>9, Zenon

\* A packet whose body is an identifier and what is granted, if anything is.
LEMMA IdRead ==
  ASSUME NEW b, NEW header, NEW id \in Word, NEW granted \in Seq(Byte),
         Wrapped(b, header, WriteU16(id) \o granted)
  PROVE  /\ \E n \in Nat : Framed(b, n)
         /\ b[1] = header
         /\ DecodeLen(Tail(b)).len = 2 + Len(granted)
         /\ ReadU16(b, Start(b)) = id
         /\ SubSeq(b, Start(b) + 2, End(b) - 1) = granted
<1>1. WriteU16(id) \in Seq(Byte) /\ Len(WriteU16(id)) = 2
  BY U16Typed
<1>2. PICK u \in Seq(Byte) : u = WriteU16(id) /\ Len(u) = 2
  BY <1>1
<1>3. PICK body \in Seq(Byte), m \in Nat : body = u \o granted /\ m = Len(granted) /\ Len(body) = 2 + m
  <2>1. u \o granted \in Seq(Byte) /\ Len(u \o granted) = Len(u) + Len(granted) /\ Len(granted) \in Nat
    BY Joins
  <2> QED
    BY <1>2, <2>1
<1>4. Wrapped(b, header, body)
  BY <1>2, <1>3
<1>5. PICK at \in Places : at = Start(b)
  BY <1>4, Zenon DEF Wrapped
<1>6. /\ b \in Seq(Byte) /\ b[1] = header /\ DecodeLen(Tail(b)).len = 2 + m
      /\ Holds(b, at, body) /\ End(b) = at + (2 + m)
  BY <1>3, <1>4, <1>5, Zenon DEF Wrapped
<1>7. Holds(b, at, u \o granted)
  BY <1>3, <1>6
<1>8. Holds(b, at, u) /\ Holds(b, at + 2, granted) /\ at + 2 \in Places
  BY <1>2, <1>6, <1>7, HoldsParts
<1>9. ReadU16(b, at) = id
  BY <1>2, <1>6, <1>8, U16Read
<1>10. SubSeq(b, at + 2, (at + 2) + m - 1) = granted
  BY <1>3, <1>6, <1>8, HoldsSub
<1>11. (at + 2) + m - 1 = (at + (2 + m)) - 1
  BY DEF Places
<1>12. Framed(b, Len(body)) /\ Len(body) \in Nat
  BY <1>4, WrappedIsFramed
<1>13. SubSeq(b, at + 2, (at + (2 + m)) - 1) = granted
  BY <1>10, <1>11
<1>14. DecodeLen(Tail(b)).len = 2 + Len(granted) /\ b[1] = header
  BY <1>3, <1>6, Zenon
<1>15. ReadU16(b, Start(b)) = id
  BY <1>5, <1>9
<1>16. SubSeq(b, Start(b) + 2, End(b) - 1) = granted
  <2>1. Start(b) + 2 = at + 2
    BY <1>5
  <2>2. End(b) = at + (2 + m)
    BY <1>6
  <2>3. End(b) - 1 = (at + (2 + m)) - 1
    BY <2>2
  <2> QED
    BY <1>13, <2>1, <2>3, Zenon
<1> QED
  BY <1>12, <1>14, <1>15, <1>16, Zenon

\* What is granted is understood as it was sent.
LEMMA SubackUnderstood ==
  ASSUME NEW p \in [type : {"SUBACK"}, id : Word, granted : {g \in Seq(Byte) : Len(g) = 1}]
  PROVE  \E n \in Nat : Framed(OnWire(p), n) /\ Understood(OnWire(p)) = p
<1>1. /\ p.type = "SUBACK" /\ p.id \in Word /\ p.granted \in Seq(Byte) /\ Len(p.granted) = 1
      /\ p = [type |-> "SUBACK", id |-> p.id, granted |-> p.granted]
  OBVIOUS
<1>2. PICK id \in Word, granted \in Seq(Byte) : id = p.id /\ granted = p.granted /\ Len(granted) = 1
  BY <1>1
<1>3. PICK h \in Byte : h = Header("SUBACK", 0, 0, 0) /\ HeaderSays(h, "SUBACK", 0, 0, 0)
  BY BrokerHeaders, Zenon DEF HeaderSays
<1>4. PICK b : b = OnWire(p) /\ b = <<h>> \o WriteLen(3) \o WriteU16(id) \o granted
  <2>1. OnWire(p) = <<Header("SUBACK", 0, 0, 0)>> \o WriteLen(2 + Len(granted)) \o WriteU16(id) \o granted
    BY <1>1, <1>2 DEF OnWire
  <2>2. 2 + Len(granted) = 3
    BY <1>2
  <2> QED
    BY <1>3, <2>1, <2>2, Zenon
<1>5. WriteU16(id) \in Seq(Byte) /\ Len(WriteU16(id)) = 2
  BY U16Typed
<1>6. PICK body \in Seq(Byte) : body = WriteU16(id) \o granted /\ Len(body) = 3
  <2>1. /\ WriteU16(id) \o granted \in Seq(Byte)
        /\ Len(WriteU16(id) \o granted) = Len(WriteU16(id)) + Len(granted)
    BY <1>5, Joins
  <2>2. Len(WriteU16(id)) + Len(granted) = 3
    BY <1>2, <1>5
  <2> QED
    BY <2>1, <2>2
<1>7. 3 \in Nat /\ 3 < MaxLength
  BY SMT DEF MaxLength
<1>8. Wrapped(<<h>> \o WriteLen(3) \o body, h, body)
  BY <1>6, <1>7, Wraps, Zenon
<1>9. <<h>> \o WriteLen(3) \o body = b
  <2>1. <<h>> \in Seq(Byte) /\ WriteLen(3) \in Seq(Byte)
    BY <1>7, FewBytes, LengthWritten, Zenon
  <2>2. PICK hl \in Seq(Byte) : hl = <<h>> \o WriteLen(3)
    BY <2>1, Joins, Zenon
  <2>4. PICK u \in Seq(Byte) : u = WriteU16(id)
    BY <1>5
  <2>5. (hl \o u) \o granted = hl \o (u \o granted)
    BY Associates, ZenonT(30)
  <2>3. hl \o (WriteU16(id) \o granted) = (hl \o WriteU16(id)) \o granted
    BY <2>4, <2>5
  <2> QED
    BY <1>4, <1>6, <2>2, <2>3, Zenon
<1>10. Wrapped(b, h, WriteU16(id) \o granted)
  BY <1>6, <1>8, <1>9, Zenon
<1>11. /\ \E n \in Nat : Framed(b, n)
       /\ b[1] = h
       /\ DecodeLen(Tail(b)).len = 2 + Len(granted)
       /\ ReadU16(b, Start(b)) = id
       /\ SubSeq(b, Start(b) + 2, End(b) - 1) = granted
  BY <1>10, IdRead, Zenon
<1>12. Understood(b) = DeserializeSuback(b, 1)
  BY <1>3, <1>11, TypeDecides, Zenon
<1>13. TypeOf(b[1]) = "SUBACK"
  BY <1>3, <1>11, Zenon DEF HeaderSays
<1>14. ~(DecodeLen(Tail(b)).len < 2) /\ ~(Len(SubSeq(b, Start(b) + 2, End(b) - 1)) > 1 + 1)
  <2>1. DecodeLen(Tail(b)).len = 3 /\ Len(SubSeq(b, Start(b) + 2, End(b) - 1)) = 1
    <3>1. 2 + 1 = 3
      OBVIOUS
    <3> QED
      BY <1>2, <1>11, <3>1, Zenon
  <2>2. ~(3 < 2) /\ ~(1 > 1 + 1)
    OBVIOUS
  <2> QED
    BY <2>1, <2>2, Zenon
<1>15. DeserializeSuback(b, 1) = [type |-> "SUBACK", id |-> id, granted |-> granted]
  BY <1>11, <1>13, <1>14, Zenon DEF DeserializeSuback
<1> QED
  BY <1>1, <1>2, <1>4, <1>11, <1>12, <1>15, Zenon

\* So is an acknowledgement.
LEMMA AckUnderstood ==
  ASSUME NEW p \in [type : {"PUBACK", "UNSUBACK"}, dup : {0}, id : Word]
  PROVE  \E n \in Nat : Framed(OnWire(p), n) /\ Understood(OnWire(p)) = p
<1>1. /\ p.type \in {"PUBACK", "UNSUBACK"} /\ p.id \in Word
      /\ p = [type |-> p.type, dup |-> 0, id |-> p.id]
  OBVIOUS
<1>2. PICK id \in Word, type \in {"PUBACK", "UNSUBACK"} : id = p.id /\ type = p.type
  BY <1>1
<1>3. PICK h \in Byte : h = Header(type, 0, 0, 0) /\ HeaderSays(h, type, 0, 0, 0)
  BY <1>2, BrokerHeaders, ClientHeaders, Zenon DEF HeaderSays
<1>4. PICK b : b = OnWire(p) /\ b = <<h>> \o WriteLen(2) \o WriteU16(id)
  <2>1. OnWire(p) = SerializeAck(type, 0, id, Room)
    BY <1>2 DEF OnWire
  <2>2. SerializeAck(type, 0, id, Room) = <<Header(type, 0, 0, 0)>> \o WriteLen(2) \o WriteU16(id)
    BY <1>2, RoomIs DEF SerializeAck
  <2> QED
    BY <1>3, <2>1, <2>2, Zenon
<1>5. WriteU16(id) \in Seq(Byte) /\ Len(WriteU16(id)) = 2 /\ <<>> \in Seq(Byte) /\ Len(<<>>) = 0
  BY U16Typed
<1>6. Wrapped(b, h, WriteU16(id))
  BY <1>4, AckWraps, Zenon
<1>7. Wrapped(b, h, WriteU16(id) \o <<>>)
  <2>1. WriteU16(id) \o <<>> = WriteU16(id)
    BY <1>5, ConcatEmptySeq, Zenon
  <2> QED
    BY <1>6, <2>1, Zenon
<1>8. /\ \E n \in Nat : Framed(b, n)
      /\ b[1] = h
      /\ DecodeLen(Tail(b)).len = 2 + Len(<<>>)
      /\ ReadU16(b, Start(b)) = id
  BY <1>5, <1>7, IdRead, Zenon
<1>9. TypeOf(b[1]) = type /\ DupOf(b[1]) = 0
  BY <1>3, <1>8, Zenon DEF HeaderSays
<1>10. ~(DecodeLen(Tail(b)).len < 2)
  BY <1>5, <1>8
<1>11. DeserializeAck(b) = [type |-> type, dup |-> 0, id |-> id]
  BY <1>8, <1>9, <1>10, Zenon DEF DeserializeAck
<1>12. HeaderSays(b[1], type, 0, 0, 0)
  BY <1>3, <1>8
<1>13. Understood(b) = DeserializeAck(b)
  <2>1. CASE type = "PUBACK"
    BY <1>12, <2>1, TypeDecides, Zenon
  <2>2. CASE type = "UNSUBACK"
    <3>1. Understood(b) = DeserializeUnsuback(b)
      BY <1>12, <2>2, TypeDecides, Zenon
    <3>2. DeserializeAck(b).type = "UNSUBACK"
      BY <1>11, <2>2
    <3> QED
      BY <3>1, <3>2, Zenon DEF DeserializeUnsuback
  <2> QED
    BY <1>2, <2>1, <2>2
<1> QED
  BY <1>1, <1>2, <1>4, <1>8, <1>11, <1>13, Zenon

\* And the answer to a ping.
LEMMA PingUnderstood ==
  ASSUME NEW p \in [type : {"PINGRESP"}]
  PROVE  \E n \in Nat : Framed(OnWire(p), n) /\ Understood(OnWire(p)) = p
<1>1. p.type = "PINGRESP" /\ p = [type |-> "PINGRESP"]
  OBVIOUS
<1>2. PICK h \in Byte : h = Header("PINGRESP", 0, 0, 0) /\ HeaderSays(h, "PINGRESP", 0, 0, 0)
  BY BrokerHeaders, Zenon DEF HeaderSays
<1>3. PICK b : b = OnWire(p) /\ b = <<h>> \o WriteLen(0)
  <2>1. OnWire(p) = SerializeZero("PINGRESP", Room)
    BY <1>1 DEF OnWire
  <2>2. SerializeZero("PINGRESP", Room) = <<Header("PINGRESP", 0, 0, 0)>> \o WriteLen(0)
    BY RoomIs DEF SerializeZero
  <2> QED
    BY <1>2, <2>1, <2>2, Zenon
<1>4. Wrapped(b, h, <<>>)
  BY <1>3, ZeroWraps, Zenon
<1>5. <<>> \in Seq(Byte) /\ Len(<<>>) \in Nat
  OBVIOUS
<1>6. Framed(b, Len(<<>>))
  BY <1>4, <1>5, WrappedIsFramed, Zenon
<1>7. b[1] = h
  BY <1>4, Zenon DEF Wrapped
<1>8. Understood(b) = [type |-> "PINGRESP"]
  BY <1>2, <1>7, TypeDecides, Zenon
<1> QED
  BY <1>1, <1>3, <1>5, <1>6, <1>8, Zenon

\* A packet that is read whole is understood as the packet that was sent.
LEMMA PacketUnderstood ==
  ASSUME NEW p \in Packets
  PROVE  \E n \in Nat : Framed(OnWire(p), n) /\ Understood(OnWire(p)) = p
<1>1. p \in BrokerPackets
  BY PacketsAssumption
<1> QED
  BY <1>1, PublishUnderstood, SubackUnderstood, AckUnderstood, PingUnderstood, Zenon DEF BrokerPackets

\* A packet is bytes, two at least.
LEMMA PacketBytes ==
  ASSUME NEW p \in Packets
  PROVE  OnWire(p) \in Seq(Byte) /\ Len(OnWire(p)) \in Nat /\ Len(OnWire(p)) > 0
<1>1. PICK n \in Nat : Framed(OnWire(p), n)
  BY PacketUnderstood, Zenon
<1>2. OnWire(p) \in Seq(Byte) /\ Len(OnWire(p)) = 1 + LengthSize(n) + n
  BY <1>1, Zenon DEF Framed
<1>3. LengthSize(n) \in 1..4
  BY SizeIs
<1> QED
  BY <1>2, <1>3

-----------------------------------------------------------------------------
(* The course of a session.                                                *)

\* The bytes of the packets of s behind each, and what is delivered up to each.
Course(s, rest, heard) ==
  /\ rest \in [0..Len(s) -> Seq(Byte)] /\ heard \in [0..Len(s) -> Seq(Packets)]
  /\ rest[Len(s)] = <<>> /\ heard[0] = <<>>
  /\ \A i \in 1..Len(s) : /\ rest[i - 1] = OnWire(s[i]) \o rest[i]
                          /\ heard[i] = IF Fits(s[i]) THEN Append(heard[i - 1], s[i]) ELSE heard[i - 1]

\* Nothing is sent at first.
LEMMA CourseStarts ==
  /\ <<>> \in Seq(Packets) /\ Len(<<>>) = 0
  /\ \E rest, heard : Course(<<>>, rest, heard)
<1>1. <<>> \in Seq(Packets) /\ Len(<<>>) = 0 /\ <<>> \in Seq(Byte)
  OBVIOUS
<1>2. PICK r : r = [i \in 0..0 |-> <<>>]
  OBVIOUS
<1>3. /\ r \in [0..Len(<<>>) -> Seq(Byte)] /\ r \in [0..Len(<<>>) -> Seq(Packets)]
      /\ r[Len(<<>>)] = <<>> /\ r[0] = <<>>
  BY <1>1, <1>2
<1>4. \A i \in 1..Len(<<>>) : FALSE
  BY <1>1
<1>5. Course(<<>>, r, r)
  BY <1>3, <1>4 DEF Course
<1> QED
  BY <1>1, <1>5, Zenon

\* A packet more is the last to be read.
LEMMA CourseGoesOn ==
  ASSUME NEW s \in Seq(Packets), NEW rest, NEW heard, Course(s, rest, heard), NEW p \in Packets
  PROVE  /\ Append(s, p) \in Seq(Packets) /\ Len(Append(s, p)) = Len(s) + 1
         /\ \A i \in 1..Len(s) : Append(s, p)[i] = s[i]
         /\ \E r, h : /\ Course(Append(s, p), r, h)
                      /\ \A i \in 0..Len(s) : r[i] = rest[i] \o OnWire(p) /\ h[i] = heard[i]
<1>1. PICK n \in Nat : n = Len(s)
  OBVIOUS
<1>2. PICK t \in Seq(Packets) : /\ t = Append(s, p) /\ Len(t) = n + 1 /\ t[n + 1] = p
                                /\ \A i \in 1..n : t[i] = s[i]
  <2>1. /\ Append(s, p) \in Seq(Packets) /\ Len(Append(s, p)) = Len(s) + 1
        /\ \A i \in 1..Len(s) : Append(s, p)[i] = s[i]
        /\ Append(s, p)[Len(s) + 1] = p
    BY AppendProperties
  <2> QED
    BY <1>1, <2>1
<1>3. PICK b \in Seq(Byte) : b = OnWire(p)
  BY PacketBytes
<1>4. /\ rest \in [0..n -> Seq(Byte)] /\ heard \in [0..n -> Seq(Packets)]
      /\ rest[n] = <<>> /\ heard[0] = <<>>
      /\ \A i \in 1..n : /\ rest[i - 1] = OnWire(s[i]) \o rest[i]
                         /\ heard[i] = IF Fits(s[i]) THEN Append(heard[i - 1], s[i]) ELSE heard[i - 1]
  BY <1>1, Zenon DEF Course
<1>5. PICK last \in Seq(Packets) : last = IF Fits(p) THEN Append(heard[n], p) ELSE heard[n]
  <2>1. heard[n] \in Seq(Packets)
    BY <1>4
  <2>2. Append(heard[n], p) \in Seq(Packets)
    BY <2>1, AppendProperties
  <2> QED
    BY <2>1, <2>2
<1>6. PICK r : r = [i \in 0..(n + 1) |-> IF i <= n THEN rest[i] \o b ELSE <<>>]
  OBVIOUS
<1>7. PICK h : h = [i \in 0..(n + 1) |-> IF i <= n THEN heard[i] ELSE last]
  OBVIOUS
<1>8. ASSUME NEW i \in 0..n PROVE /\ r[i] = rest[i] \o b /\ h[i] = heard[i]
                                  /\ rest[i] \in Seq(Byte) /\ heard[i] \in Seq(Packets)
                                  /\ r[i] \in Seq(Byte)
  <2>1. i \in 0..(n + 1) /\ i <= n
    OBVIOUS
  <2>2. r[i] = rest[i] \o b /\ h[i] = heard[i]
    BY <1>6, <1>7, <2>1
  <2>3. rest[i] \in Seq(Byte) /\ heard[i] \in Seq(Packets)
    BY <1>4
  <2> QED
    BY <2>2, <2>3, Joins
<1>9. r[n + 1] = <<>> /\ h[n + 1] = last
  BY <1>6, <1>7
<1>10. r \in [0..(n + 1) -> Seq(Byte)]
  <2>1. ASSUME NEW i \in 0..(n + 1) PROVE (IF i <= n THEN rest[i] \o b ELSE <<>>) \in Seq(Byte)
    <3>1. CASE i <= n
      <4>1. i \in 0..n
        BY <3>1
      <4>2. rest[i] \o b \in Seq(Byte)
        BY <1>8, <4>1
      <4> QED
        BY <3>1, <4>2
    <3> QED
      BY <3>1
  <2> QED
    BY <1>6, <2>1
<1>11. h \in [0..(n + 1) -> Seq(Packets)]
  <2>1. ASSUME NEW i \in 0..(n + 1) PROVE (IF i <= n THEN heard[i] ELSE last) \in Seq(Packets)
    <3>1. CASE i <= n
      <4>1. i \in 0..n
        BY <3>1
      <4>2. heard[i] \in Seq(Packets)
        BY <1>8, <4>1
      <4> QED
        BY <3>1, <4>2
    <3> QED
      BY <3>1
  <2> QED
    BY <1>7, <2>1
<1>12. h[0] = <<>>
  <2>1. 0 \in 0..n
    OBVIOUS
  <2> QED
    BY <1>4, <1>8, <2>1
<1>13. ASSUME NEW i \in 1..(n + 1)
       PROVE  /\ r[i - 1] = OnWire(t[i]) \o r[i]
              /\ h[i] = IF Fits(t[i]) THEN Append(h[i - 1], t[i]) ELSE h[i - 1]
  <2>1. CASE i = n + 1
    <3>1. i - 1 = n /\ n \in 0..n /\ t[i] = p
      BY <1>2, <2>1
    <3>2. r[n] = <<>> \o b /\ h[n] = heard[n]
      BY <1>4, <1>8, <3>1
    <3>3. <<>> \o b = b \o <<>>
      BY ConcatEmptySeq
    <3>4. r[i - 1] = OnWire(t[i]) \o r[i]
      BY <1>3, <1>9, <2>1, <3>1, <3>2, <3>3
    <3>5. h[i] = IF Fits(t[i]) THEN Append(h[i - 1], t[i]) ELSE h[i - 1]
      BY <1>5, <1>9, <2>1, <3>1, <3>2
    <3> QED
      BY <3>4, <3>5
  <2>2. CASE i # n + 1
    <3>1. i \in 1..n /\ i \in 0..n /\ i - 1 \in 0..n
      BY <2>2
    <3>2. PICK c \in Seq(Byte) : c = OnWire(s[i])
      <4>1. s[i] \in Packets
        BY <1>1, <3>1, ElementOfSeq
      <4> QED
        BY <4>1, PacketBytes
    <3>3. rest[i - 1] = c \o rest[i] /\ rest[i] \in Seq(Byte)
      BY <1>4, <1>8, <3>1, <3>2
    <3>4. (c \o rest[i]) \o b = c \o (rest[i] \o b)
      BY <3>3, Associates
    <3>5. t[i] = s[i]
      BY <1>2, <3>1
    <3>6. r[i - 1] = OnWire(t[i]) \o r[i]
      <4>1. r[i - 1] = rest[i - 1] \o b /\ r[i] = rest[i] \o b
        BY <1>8, <3>1
      <4> QED
        BY <3>2, <3>3, <3>4, <3>5, <4>1, Zenon
    <3>7. h[i] = IF Fits(t[i]) THEN Append(h[i - 1], t[i]) ELSE h[i - 1]
      <4>1. h[i - 1] = heard[i - 1] /\ h[i] = heard[i]
        BY <1>8, <3>1
      <4>2. heard[i] = IF Fits(s[i]) THEN Append(heard[i - 1], s[i]) ELSE heard[i - 1]
        BY <1>4, <3>1
      <4> QED
        BY <3>5, <4>1, <4>2, Zenon
    <3> QED
      BY <3>6, <3>7
  <2> QED
    BY <2>1, <2>2
<1>14. Course(t, r, h)
  BY <1>2, <1>9, <1>10, <1>11, <1>12, <1>13, Zenon DEF Course
<1>15. \A i \in 0..n : r[i] = rest[i] \o OnWire(p) /\ h[i] = heard[i]
  BY <1>3, <1>8
<1>16. Append(s, p) \in Seq(Packets) /\ Len(Append(s, p)) = Len(s) + 1
  BY <1>1, <1>2, Zenon
<1>17. \A i \in 1..Len(s) : Append(s, p)[i] = s[i]
  BY <1>1, <1>2, Zenon
<1>18. \E x, y : /\ Course(Append(s, p), x, y)
                 /\ \A i \in 0..Len(s) : x[i] = rest[i] \o OnWire(p) /\ y[i] = heard[i]
  <2>1. Course(Append(s, p), r, h)
    BY <1>2, <1>14, Zenon
  <2>2. \A i \in 0..Len(s) : r[i] = rest[i] \o OnWire(p) /\ h[i] = heard[i]
    BY <1>1, <1>15, Zenon
  <2> QED
    BY <2>1, <2>2, ZenonT(30)
<1> QED
  BY <1>16, <1>17, <1>18, Zenon

\* What is delivered up to a packet is delivered first in all.
LEMMA CourseGrows ==
  ASSUME NEW s \in Seq(Packets), NEW rest, NEW heard, Course(s, rest, heard),
         NEW k \in 0..Len(s)
  PROVE  IsPrefix(heard[k], heard[Len(s)])
<1>1. PICK n \in Nat : n = Len(s) /\ k \in 0..n /\ k \in Nat
  OBVIOUS
<1>2. /\ heard \in [0..n -> Seq(Packets)]
      /\ \A i \in 1..n : heard[i] = IF Fits(s[i]) THEN Append(heard[i - 1], s[i]) ELSE heard[i - 1]
  BY <1>1, Zenon DEF Course
<1>3. PICK a \in Seq(Packets), m \in Nat : a = heard[k] /\ m = Len(a)
  BY <1>1, <1>2
<1> DEFINE T == {i \in Nat : i \in k..n => /\ m <= Len(heard[i]) /\ \A j \in 1..m : heard[i][j] = a[j]}
<1>4. ASSUME NEW i \in Nat, \A j \in Nat : j < i => j \in T PROVE i \in T
  <2> SUFFICES ASSUME i \in k..n PROVE m <= Len(heard[i]) /\ \A j \in 1..m : heard[i][j] = a[j]
    OBVIOUS
  <2>1. CASE i = k
    BY <1>3, <2>1
  <2>2. CASE i # k
    <3>1. i \in 1..n /\ i - 1 \in Nat /\ i - 1 \in k..n /\ i - 1 < i /\ i - 1 \in 0..n
      BY <1>1, <2>2
    <3>2. PICK c \in Seq(Packets) : c = heard[i - 1]
      BY <1>2, <3>1
    <3>3. m <= Len(c) /\ \A j \in 1..m : c[j] = a[j]
      BY <1>4, <3>1, <3>2
    <3>4. PICK l \in Nat : l = Len(c)
      OBVIOUS
    <3>5. s[i] \in Packets
      BY <1>1, <3>1, ElementOfSeq
    <3>6. Len(Append(c, s[i])) = l + 1 /\ \A j \in 1..l : Append(c, s[i])[j] = c[j]
      BY <3>4, <3>5, AppendProperties
    <3>7. heard[i] = Append(c, s[i]) \/ heard[i] = c
      BY <1>2, <3>1, <3>2
    <3>8. \A j \in 1..m : j \in 1..l
      BY <3>3, <3>4
    <3>9. m <= l + 1
      BY <3>3, <3>4
    <3> QED
      BY <3>3, <3>4, <3>6, <3>7, <3>8, <3>9
  <2> QED
    BY <2>1, <2>2
<1> HIDE DEF T
<1>5. Nat \subseteq T
  BY <1>4, Induction
<1>6. PICK z \in Seq(Packets) : z = heard[n]
  BY <1>2
<1>7. m <= Len(z) /\ \A j \in 1..m : z[j] = a[j]
  <2>1. n \in T /\ n \in k..n
    BY <1>1, <1>5
  <2> QED
    BY <1>6, <2>1 DEF T
<1>8. SubSeq(a, 1, m) = SubSeq(z, 1, m)
  <2>1. \A j \in 1..m : a[j] \in Packets /\ z[j] \in Packets
    BY <1>3, <1>7
  <2>2. /\ SubSeq(a, 1, m) \in Seq(Packets) /\ Len(SubSeq(a, 1, m)) = m
        /\ \A j \in 1..m : SubSeq(a, 1, m)[j] = a[j]
    BY <1>3
  <2>3. /\ SubSeq(z, 1, m) \in Seq(Packets) /\ Len(SubSeq(z, 1, m)) = m
        /\ \A j \in 1..m : SubSeq(z, 1, m)[j] = z[j]
    BY <1>6, <1>7
  <2>4. \A j \in 1..m : SubSeq(a, 1, m)[j] = SubSeq(z, 1, m)[j]
    BY <1>7, <2>2, <2>3
  <2> QED
    BY <2>2, <2>3, <2>4, SeqEqual
<1> QED
  BY <1>1, <1>3, <1>6, <1>7, <1>8 DEF IsPrefix

\* What is delivered in the end are the packets that fit.
LEMMA CourseFits ==
  ASSUME sent \in Seq(Packets), NEW rest, NEW heard, Course(sent, rest, heard)
  PROVE  Fitting = heard[Len(sent)]
<1>1. PICK n \in Nat : n = Len(sent)
  OBVIOUS
<1>2. /\ heard \in [0..n -> Seq(Packets)] /\ heard[0] = <<>>
      /\ \A i \in 1..n : heard[i] = IF Fits(sent[i]) THEN Append(heard[i - 1], sent[i]) ELSE heard[i - 1]
  BY <1>1, Zenon DEF Course
<1> DEFINE Is(f) == f = [i \in 0..Len(sent) |->
                           IF i = 0 THEN <<>>
                           ELSE IF Fits(sent[i]) THEN Append(f[i - 1], sent[i]) ELSE f[i - 1]]
<1>3. \A i \in 0..n : heard[i] = IF i = 0 THEN <<>>
                                 ELSE IF Fits(sent[i]) THEN Append(heard[i - 1], sent[i]) ELSE heard[i - 1]
  <2>1. \A i \in 0..n : i # 0 => i \in 1..n
    OBVIOUS
  <2> QED
    BY <1>2, <2>1, Zenon
<1>4. Is(heard)
  BY <1>1, <1>2, <1>3
<1>5. PICK g : g = (CHOOSE f : Is(f)) /\ Is(g)
  <2> HIDE DEF Is
  <2> QED
    BY <1>4, Zenon
<1>6. Fitting = g[n]
  BY <1>1, <1>5 DEF Fitting
<1>7. \A i \in 0..n : g[i] = IF i = 0 THEN <<>>
                             ELSE IF Fits(sent[i]) THEN Append(g[i - 1], sent[i]) ELSE g[i - 1]
  <2>1. g = [i \in 0..n |-> IF i = 0 THEN <<>>
                            ELSE IF Fits(sent[i]) THEN Append(g[i - 1], sent[i]) ELSE g[i - 1]]
    BY <1>1, <1>5
  <2> QED
    BY <2>1
<1> HIDE DEF Is
<1> DEFINE T == {i \in Nat : i \in 0..n => g[i] = heard[i]}
<1>8. ASSUME NEW i \in Nat, \A j \in Nat : j < i => j \in T PROVE i \in T
  <2> SUFFICES ASSUME i \in 0..n PROVE g[i] = heard[i]
    OBVIOUS
  <2>1. CASE i # 0
    <3>1. i - 1 \in 0..n /\ i - 1 \in Nat /\ i - 1 < i
      BY <2>1
    <3>2. g[i - 1] = heard[i - 1]
      BY <1>8, <3>1
    <3> QED
      BY <1>3, <1>7, <2>1, <3>2, Zenon
  <2>2. CASE i = 0
    BY <1>3, <1>7, <2>2, Zenon
  <2> QED
    BY <2>1, <2>2
<1> HIDE DEF T
<1>9. Nat \subseteq T
  BY <1>8, Induction
<1>10. n \in 0..n
  OBVIOUS
<1> QED
  BY <1>1, <1>6, <1>9, <1>10 DEF T

-----------------------------------------------------------------------------
(* Cutting a sequence.                                                     *)

\* A piece of a sequence.
LEMMA Piece ==
  ASSUME NEW w \in Seq(Byte), NEW m \in Nat, NEW j \in Nat, m <= j, j <= Len(w),
         NEW d, d = SubSeq(w, m + 1, j)
  PROVE  d \in Seq(Byte) /\ Len(d) = j - m /\ \A k \in 1..(j - m) : d[k] = w[m + k]
<1>1. \A k \in (m + 1)..j : w[k] \in Byte
  OBVIOUS
<1>2. m + 1 \in Int /\ j \in Int
  OBVIOUS
<1>3. /\ d \in Seq(Byte)
      /\ Len(d) = IF m + 1 <= j THEN j - (m + 1) + 1 ELSE 0
      /\ \A k \in 1..(j - (m + 1) + 1) : d[k] = w[(m + 1) + k - 1]
  BY <1>1, <1>2, SubSeqProperties
<1>4. j - (m + 1) + 1 = j - m /\ (IF m + 1 <= j THEN j - (m + 1) + 1 ELSE 0) = j - m
  OBVIOUS
<1>5. \A k \in 1..(j - m) : (m + 1) + k - 1 = m + k
  OBVIOUS
<1> QED
  BY <1>3, <1>4, <1>5

\* Two sequences joined.
LEMMA JoinedTwo ==
  ASSUME NEW c \in Seq(Byte), NEW d \in Seq(Byte), NEW m \in Nat, m = Len(c), NEW k \in Nat, k = Len(d),
         NEW e, e = c \o d
  PROVE  /\ e \in Seq(Byte) /\ Len(e) = m + k
         /\ \A i \in 1..(m + k) : e[i] = IF i <= m THEN c[i] ELSE d[i - m]
  BY ConcatProperties

\* When the first m bytes of c and r are gone, d and r are left.
IsBehind(c, r, m, d) ==
  /\ Len(d) = Len(c) - m
  /\ SubSeq(c \o r, m + 1, Len(c \o r)) = d \o r
  /\ m = Len(c) => d \o r = r

\* They are the rest of c, and r.
LEMMA Behind ==
  \A c, r \in Seq(Byte), m \in Nat :
    m <= Len(c) => \E d \in Seq(Byte) : IsBehind(c, r, m, d)
<1> TAKE c, r \in Seq(Byte), m \in Nat
<1> HAVE m <= Len(c)
<1>0. PICK w, d : w = c \o r /\ d = SubSeq(c, m + 1, Len(c))
  OBVIOUS
<1>1. PICK k \in Nat, l \in Nat : k = Len(c) /\ l = Len(r) /\ m <= k
  OBVIOUS
<1>2. /\ w \in Seq(Byte) /\ Len(w) = k + l
      /\ \A i \in 1..(k + l) : w[i] = IF i <= k THEN c[i] ELSE r[i - k]
  BY <1>0, <1>1, JoinedTwo
<1>3. d \in Seq(Byte) /\ Len(d) = k - m /\ \A i \in 1..(k - m) : d[i] = c[m + i]
  BY SMTT(30), <1>0, <1>1, Piece
<1>a. PICK n \in Nat, z \in Nat : n = k - m /\ z = k + l /\ z - m = n + l /\ m <= z /\ z = k + l
  <2>1. k - m \in Nat /\ k + l \in Nat /\ (k + l) - m = (k - m) + l /\ m <= k + l
    BY <1>1
  <2> QED
    BY <2>1
<1>4. PICK e : e = SubSeq(w, m + 1, z)
  OBVIOUS
<1>b. e \in Seq(Byte) /\ Len(e) = n + l /\ \A i \in 1..(n + l) : e[i] = w[m + i]
  <2>1. w \in Seq(Byte) /\ m <= z /\ z <= Len(w) /\ e = SubSeq(w, m + 1, z)
    BY <1>2, <1>4, <1>a
  <2>2. e \in Seq(Byte) /\ Len(e) = z - m /\ \A i \in 1..(z - m) : e[i] = w[m + i]
    BY <2>1, Piece
  <2> QED
    BY <1>a, <2>2, Zenon
<1>5. PICK f : f = d \o r
  OBVIOUS
<1>c. f \in Seq(Byte) /\ Len(f) = n + l /\ \A i \in 1..(n + l) : f[i] = IF i <= n THEN d[i] ELSE r[i - n]
  <2>1. d \in Seq(Byte) /\ n = Len(d) /\ l = Len(r) /\ f = d \o r
    BY <1>1, <1>3, <1>5, <1>a
  <2> QED
    BY <2>1, JoinedTwo
<1>6. ASSUME NEW i \in 1..(n + l) PROVE e[i] = f[i]
  <2>1. m + i \in 1..(k + l) /\ (m + i <= k <=> i <= n) /\ (m + i) - k = i - n
    BY <1>1, <1>a
  <2>2. e[i] = w[m + i]
    BY <1>b
  <2>3. CASE i <= n
    <3>1. i \in 1..n
      BY <2>3
    <3> QED
      BY <1>2, <1>3, <1>a, <1>c, <2>1, <2>2, <2>3, <3>1
  <2>4. CASE ~(i <= n)
    <3>1. w[m + i] = r[(m + i) - k] /\ f[i] = r[i - n]
      BY <1>2, <1>c, <2>1, <2>4
    <3> QED
      BY <2>1, <2>2, <3>1
  <2> QED
    BY <2>3, <2>4
<1>7. e = f
  BY <1>b, <1>c, <1>6, SeqEqual
<1>8. m = k => d \o r = r
  <2>1. m = k => d = <<>>
    BY <1>1, <1>3
  <2> QED
    BY <2>1, ConcatEmptySeq
<1>9. SubSeq(w, m + 1, Len(w)) = d \o r
  BY <1>2, <1>4, <1>5, <1>7, <1>a, Zenon
<1>10. Len(d) = Len(c) - m /\ (m = Len(c) => d \o r = r)
  BY <1>1, <1>3, <1>8
<1>11. IsBehind(c, r, m, d)
  BY <1>0, <1>9, <1>10, Zenon DEF IsBehind
<1> QED
  BY <1>3, <1>11, Zenon

\* The first bytes and those behind them are all.
LEMMA CutAndJoin ==
  ASSUME NEW w \in Seq(Byte), NEW m \in Nat, m <= Len(w)
  PROVE  SubSeq(w, 1, m) \o SubSeq(w, m + 1, Len(w)) = w
<1>1. PICK k \in Nat, n \in Nat : k = Len(w) /\ m <= k /\ n = k - m
  <2>1. Len(w) \in Nat /\ Len(w) - m \in Nat
    OBVIOUS
  <2> QED
    BY <2>1
<1>2. PICK c, d, e : c = SubSeq(w, 1, m) /\ d = SubSeq(w, m + 1, k) /\ e = c \o d
  OBVIOUS
<1>3. c \in Seq(Byte) /\ Len(c) = m /\ \A i \in 1..m : c[i] = w[i]
  <2>1. 0 \in Nat /\ 0 + 1 = 1 /\ 0 <= m /\ m <= Len(w) /\ m - 0 = m /\ \A i \in 1..m : 0 + i = i
    BY <1>1
  <2>2. c = SubSeq(w, 0 + 1, m)
    BY <1>2, <2>1
  <2>3. c \in Seq(Byte) /\ Len(c) = m - 0 /\ \A i \in 1..(m - 0) : c[i] = w[0 + i]
    BY <2>1, <2>2, Piece
  <2> QED
    BY <2>1, <2>3
<1>4. d \in Seq(Byte) /\ Len(d) = n /\ \A i \in 1..n : d[i] = w[m + i]
  <2>1. d \in Seq(Byte) /\ Len(d) = k - m /\ \A i \in 1..(k - m) : d[i] = w[m + i]
    BY SMTT(30), <1>1, <1>2, Piece
  <2> QED
    BY <1>1, <2>1
<1>5. m + n = k
  BY <1>1
<1>6. e \in Seq(Byte) /\ Len(e) = k /\ \A i \in 1..k : e[i] = IF i <= m THEN c[i] ELSE d[i - m]
  <2>1. /\ e \in Seq(Byte) /\ Len(e) = m + n
        /\ \A i \in 1..(m + n) : e[i] = IF i <= m THEN c[i] ELSE d[i - m]
    <3>1. c \in Seq(Byte) /\ d \in Seq(Byte) /\ m = Len(c) /\ n = Len(d) /\ e = c \o d
      BY <1>2, <1>3, <1>4
    <3> QED
      BY <3>1, JoinedTwo
  <2> QED
    BY <1>5, <2>1
<1>7. ASSUME NEW i \in 1..k PROVE e[i] = w[i]
  <2>1. CASE i <= m
    <3>1. i \in 1..m
      BY <2>1
    <3> QED
      BY <1>3, <1>6, <2>1, <3>1
  <2>2. CASE ~(i <= m)
    <3>1. i - m \in 1..n /\ m + (i - m) = i
      BY <1>1, <2>2
    <3>2. d[i - m] = w[m + (i - m)]
      BY <1>4, <3>1
    <3> QED
      BY <1>6, <2>2, <3>1, <3>2
  <2> QED
    BY <2>1, <2>2
<1>8. e = w
  BY <1>1, <1>6, <1>7, SeqEqual
<1> QED
  BY <1>1, <1>2, <1>8

\* The bytes b begin with those of x.
BeginsWith(b, x) == \A i \in 1..Len(x) : x[i] = b[i]

\* The bytes w are k bytes and those of r.
EndsWith(w, r, k) == \E c \in Seq(Byte) : w = c \o r /\ Len(c) = k

\* Two ways to cut the same bytes in two.
LEMMA SameBytes ==
  ASSUME NEW x \in Seq(Byte), NEW w \in Seq(Byte), NEW b \in Seq(Byte), NEW r \in Seq(Byte),
         x \o w = b \o r, Len(x) <= Len(b)
  PROVE  /\ BeginsWith(b, x)
         /\ EndsWith(w, r, Len(b) - Len(x))
         /\ Len(x) = Len(b) => x = b /\ w = r
<1>1. PICK m \in Nat, k \in Nat : m = Len(x) /\ k = Len(b) /\ m <= k
  OBVIOUS
<1>2. PICK z : z = x \o w /\ z = b \o r
  OBVIOUS
<1>3. m <= Len(x) /\ m <= Len(b)
  BY <1>1
<1>4. PICK d \in Seq(Byte) : IsBehind(x, w, m, d)
  BY <1>3, Behind, Zenon
<1>5. PICK c \in Seq(Byte) : IsBehind(b, r, m, c)
  BY <1>3, Behind, Zenon
<1>6. ASSUME NEW i \in 1..m PROVE x[i] = b[i]
  <2>0. PICK l \in Nat, q \in Nat : l = Len(w) /\ q = Len(r)
    OBVIOUS
  <2>1. i \in 1..k /\ i \in 1..(m + l) /\ i \in 1..(k + q) /\ i <= m /\ i <= k
    BY <1>1
  <2>2. z[i] = x[i]
    BY <1>1, <1>2, <2>0, <2>1, JoinedTwo
  <2>3. z[i] = b[i]
    BY <1>1, <1>2, <2>0, <2>1, JoinedTwo
  <2> QED
    BY <2>2, <2>3
<1>7. m = k => x = b
  BY <1>1, <1>6, SeqEqual
<1>8. w = c \o r /\ (m = Len(b) => w = r)
  <2>1. SubSeq(z, m + 1, Len(z)) = w
    BY <1>1, <1>2, <1>4, Zenon DEF IsBehind
  <2>2. SubSeq(z, m + 1, Len(z)) = c \o r /\ (m = Len(b) => c \o r = r)
    BY <1>2, <1>5, Zenon DEF IsBehind
  <2> QED
    BY <2>1, <2>2, Zenon
<1>9. Len(c) = Len(b) - Len(x)
  BY <1>1, <1>5, Zenon DEF IsBehind
<1>10. EndsWith(w, r, Len(b) - Len(x))
  BY <1>8, <1>9, Zenon DEF EndsWith
<1>11. BeginsWith(b, x)
  BY <1>1, <1>6, Zenon DEF BeginsWith
<1> QED
  BY <1>1, <1>7, <1>8, <1>10, <1>11, Zenon

-----------------------------------------------------------------------------
(* The length, byte by byte.                                               *)

\* What the first j bytes of the length n say of it.
Partly(n, j) ==
  (IF 1 <= j THEN WriteLen(n)[1] % 128 ELSE 0)
  + (IF 2 <= j THEN (WriteLen(n)[2] % 128) * 128 ELSE 0)
  + (IF 3 <= j THEN (WriteLen(n)[3] % 128) * 16384 ELSE 0)
  + (IF 4 <= j THEN (WriteLen(n)[4] % 128) * 2097152 ELSE 0)

\* Each byte of the length says whether more follow, and adds its part.
LEMMA LengthGoesOn ==
  ASSUME NEW b, NEW n, Framed(b, n), NEW j \in 1..LengthSize(n)
  PROVE  /\ b[j + 1] \in Byte
         /\ b[j + 1] >= 128 <=> j < LengthSize(n)
         /\ Partly(n, j) = Partly(n, j - 1) + (b[j + 1] % 128) * Multiplier[j]
         /\ Partly(n, 0) = 0 /\ Partly(n, LengthSize(n)) = n
<1>1. PICK l \in 1..4 : l = LengthSize(n)
  <2>1. n \in Nat
    BY DEF Framed
  <2> QED
    BY <2>1, SizeIs
<1>0. PICK w : w = WriteLen(n)
  OBVIOUS
<1>2. Digits(w, n)
  BY <1>0, WriteLenDigits, Zenon DEF Framed
<1>3. /\ w \in Seq(Byte) /\ Len(w) = l
      /\ \A k \in 1..4 : k < l => w[k] >= 128
      /\ w[l] < 128
      /\ n = (w[1] % 128) + (IF 2 <= l THEN (w[2] % 128) * 128 ELSE 0)
               + (IF 3 <= l THEN (w[3] % 128) * 16384 ELSE 0)
               + (IF 4 <= l THEN (w[4] % 128) * 2097152 ELSE 0)
  BY SMT, <1>1, <1>2 DEF Digits
<1>4. \A k \in 1..l : w[k] \in Byte
  BY <1>3, ElementOfSeq
<1>5. j \in 1..l /\ j \in 1..4
  BY <1>1
<1>6. b[j + 1] = w[j]
  <2>0. Holds(b, 2, w)
    BY <1>0, Zenon DEF Framed
  <2>1. \A k \in 1..l : b[2 + k - 1] = w[k]
    BY <1>3, <2>0 DEF Holds
  <2>2. 2 + j - 1 = j + 1
    BY <1>5
  <2> QED
    BY <1>5, <2>1, <2>2
<1>7. PICK byte \in Nat : byte = w[j]
  BY <1>4, <1>5, ByteIs
<1>8. byte >= 128 <=> j < l
  BY <1>3, <1>5, <1>7
<1>9. \A k \in 1..l : w[k] \in Nat /\ w[k] % 128 \in Nat
  <2>1. \A k \in 1..l : w[k] \in Nat
    BY <1>4, ByteIs
  <2> QED
    BY <2>1
<1>10. PICK p1 \in Nat, p2 \in Nat, p3 \in Nat, p4 \in Nat :
         /\ p1 = IF 1 <= l THEN w[1] % 128 ELSE 0
         /\ p2 = IF 2 <= l THEN (w[2] % 128) * 128 ELSE 0
         /\ p3 = IF 3 <= l THEN (w[3] % 128) * 16384 ELSE 0
         /\ p4 = IF 4 <= l THEN (w[4] % 128) * 2097152 ELSE 0
  <2>1. /\ 1 <= l => 1 \in 1..l
        /\ 2 <= l => 2 \in 1..l
        /\ 3 <= l => 3 \in 1..l
        /\ 4 <= l => 4 \in 1..l
    OBVIOUS
  <2> QED
    BY SMT, <1>9, <2>1
<1>11. \A i \in 0..l : Partly(n, i) = (IF 1 <= i THEN p1 ELSE 0) + (IF 2 <= i THEN p2 ELSE 0)
                                      + (IF 3 <= i THEN p3 ELSE 0) + (IF 4 <= i THEN p4 ELSE 0)
  BY SMT, <1>0, <1>10 DEF Partly
<1>12. Partly(n, 0) = 0 /\ Partly(n, l) = n
  <2>1. n = p1 + p2 + p3 + p4
    BY SMT, <1>3, <1>10
  <2> QED
    BY SMT, <1>10, <1>11, <2>1
<1>13. (w[j] % 128) * Multiplier[j] = IF j = 1 THEN p1 ELSE IF j = 2 THEN p2 ELSE IF j = 3 THEN p3 ELSE p4
  <2>1. Multiplier[1] = 1 /\ Multiplier[2] = 128 /\ Multiplier[3] = 16384 /\ Multiplier[4] = 2097152
    BY SMT DEF Multiplier
  <2>2. w[j] % 128 \in Nat
    BY <1>5, <1>9
  <2>3. j = 1 \/ j = 2 \/ j = 3 \/ j = 4
    BY <1>5
  <2> QED
    BY SMT, <1>5, <1>10, <2>1, <2>2, <2>3
<1>14. Partly(n, j) = Partly(n, j - 1) + (w[j] % 128) * Multiplier[j]
  <2>1. j - 1 \in 0..l /\ j \in 0..l
    BY <1>5
  <2> QED
    BY SMT, <1>5, <1>11, <1>13, <2>1
<1> QED
  BY <1>1, <1>4, <1>5, <1>6, <1>7, <1>8, <1>12, <1>14

-----------------------------------------------------------------------------
(* The bytes.                                                              *)

\* What leaves the network are its first bytes, and bytes are left.
LEMMA TakeKeeps ==
  ASSUME wire \in Seq(Byte), NEW n \in Nat, Take(n)
  PROVE  /\ wire' \in Seq(Byte)
         /\ n <= Len(wire)
         /\ Len(wire') = Len(wire) - n
         /\ SubSeq(wire, 1, n) \in Seq(Byte) /\ Len(SubSeq(wire, 1, n)) = n
<1>1. Len(wire) \in Nat /\ n <= Len(wire) /\ wire' = SubSeq(wire, n + 1, Len(wire))
  BY DEF Take
<1>2. \A i \in 1..Len(wire) : wire[i] \in Byte
  OBVIOUS
<1>3. /\ SubSeq(wire, n + 1, Len(wire)) \in Seq(Byte)
      /\ Len(SubSeq(wire, n + 1, Len(wire))) =
           IF n + 1 <= Len(wire) THEN Len(wire) - (n + 1) + 1 ELSE 0
  BY <1>1, <1>2, SubSeqProperties
<1>4. /\ SubSeq(wire, 1, n) \in Seq(Byte)
      /\ Len(SubSeq(wire, 1, n)) = IF 1 <= n THEN n - 1 + 1 ELSE 0
  BY <1>1, <1>2, SubSeqProperties
<1>5. QED
  BY <1>1, <1>3, <1>4

\* A read that is completed leaves what was asked for in the buffer.
LEMMA ReadAllKeeps ==
  ASSUME wire \in Seq(Byte), readBuf \in Seq(Byte), NEW offset \in Nat, NEW size \in Nat,
         ReadAll(offset, size)
  PROVE  /\ wire' \in Seq(Byte) /\ readBuf' \in Seq(Byte)
         /\ Len(readBuf') = IF Len(readBuf) < offset + size THEN offset + size ELSE Len(readBuf)
<1>1. Len(readBuf) \in Nat
  OBVIOUS
<1>2. CASE Missing(offset, size) > 0
  <2>1. PICK n \in Nat : n = offset + size - Len(readBuf) /\ n = Missing(offset, size)
    <3>1. Missing(offset, size) = offset + size - Len(readBuf)
      BY DEF Missing, readBufIndex
    <3>2. offset + size - Len(readBuf) \in Int
      BY <1>1
    <3>3. offset + size - Len(readBuf) > 0
      BY <1>2, <3>1
    <3>4. offset + size - Len(readBuf) \in Nat
      BY <3>2, <3>3
    <3>5. QED
      BY <3>1, <3>4
  <2>2. Take(n) /\ readBuf' = readBuf \o SubSeq(wire, 1, n)
    BY <1>2, <2>1 DEF ReadAll
  <2>3. /\ wire' \in Seq(Byte)
        /\ SubSeq(wire, 1, n) \in Seq(Byte) /\ Len(SubSeq(wire, 1, n)) = n
    BY <2>2, TakeKeeps
  <2>4. readBuf' \in Seq(Byte) /\ Len(readBuf') = Len(readBuf) + n
    BY <2>2, <2>3, ConcatProperties
  <2>5. n > 0
    BY <1>2, <2>1
  <2>6. QED
    BY <1>1, <2>1, <2>3, <2>4, <2>5
<1>3. CASE ~(Missing(offset, size) > 0)
  <2>1. UNCHANGED <<wire, readBuf>>
    BY <1>3 DEF ReadAll
  <2>2. ~(Len(readBuf) < offset + size)
    BY <1>1, <1>3 DEF Missing, readBufIndex
  <2>3. QED
    BY <2>1, <2>2
<1>4. QED
  BY <1>2, <1>3

\* A chunk replaces bytes of the buffer by bytes of the network.
LEMMA OverwrittenIs ==
  ASSUME wire \in Seq(Byte), readBuf \in Seq(Byte), NEW n \in Nat, n <= Len(wire)
  PROVE  Overwritten(n) \in Seq(Byte) /\ Len(Overwritten(n)) = Len(readBuf)
<1>1. PICK k \in Nat : k = Len(readBuf) /\ DOMAIN readBuf = 1..k
  OBVIOUS
<1>2. \A i \in 1..k : (IF i <= n THEN wire[i] ELSE readBuf[i]) \in Byte
  BY <1>1
<1>3. Overwritten(n) = [i \in 1..k |-> IF i <= n THEN wire[i] ELSE readBuf[i]]
  BY <1>1 DEF Overwritten
<1>4. Overwritten(n) \in [1..k -> Byte]
  BY <1>2, <1>3
<1>5. QED
  BY <1>1, <1>4

-----------------------------------------------------------------------------
(* The invariant.                                                          *)

BytesOK == wire \in Seq(Byte) /\ readBuf \in Seq(Byte)

\* Between two packets no more than a header and a length are in the buffer, also
\* when they are those of a packet whose reading was given up.
Kept == stage # "done" => Len(readBuf) <= 5

\* The length says how much of the buffer is used before it is used.
LengthKept ==
  /\ len \in Nat /\ rem_len \in Nat /\ total \in Nat /\ toRead \in Nat
  /\ stage = "header" => rem_len = 0
  /\ stage # "drop" => total = 0
  /\ stage = "length" => len \in 1..5 /\ len <= Len(readBuf)
  /\ stage \in {"rest", "done"} => ~TooLong(len + 1, rem_len)
  /\ stage = "drop" => toRead \in 1..BufSize

FlagsOK ==
  /\ stage \in {"header", "length", "rest", "drop", "done"}
  /\ torn \in Reasons \cup {"none"}
  /\ timeouts \in 0..MaxTimeouts

IInv == BytesOK /\ Kept /\ LengthKept /\ FlagsOK

\* Once torn, the stream stays torn for one of the reasons.
LEMMA TearIs == ASSUME FlagsOK, NEW reason \in Reasons, Tear(reason)
                PROVE  torn' \in Reasons \cup {"none"}
  BY DEF FlagsOK, Tear

\* read_packet returns with the buffer as long as it was.
LEMMA ReturnKeeps ==
  ASSUME IInv, stage # "done", Returns, BytesOK', Len(readBuf') = Len(readBuf),
         torn' \in Reasons \cup {"none"}, timeouts' \in 0..MaxTimeouts
  PROVE  IInv'
<1>1. /\ stage' = "header" /\ len' = 0 /\ rem_len' = 0 /\ total' = 0 /\ toRead' = 0
  BY DEF Returns
<1>2. Kept'
  BY <1>1 DEF IInv, Kept
<1>3. LengthKept'
  BY <1>1 DEF LengthKept
<1>4. FlagsOK'
  BY <1>1 DEF FlagsOK
<1>5. QED
  BY <1>2, <1>3, <1>4 DEF IInv

\* read_packet returns and has flushed the buffer.
LEMMA FlushKeeps ==
  ASSUME IInv, Flush, wire' \in Seq(Byte),
         stage' = "header" /\ len' = 0 /\ rem_len' = 0 /\ total' = 0 /\ toRead' = 0,
         torn' \in Reasons \cup {"none"}, timeouts' \in 0..MaxTimeouts
  PROVE  IInv'
<1>1. readBuf' \in Seq(Byte) /\ Len(readBuf') = 0
  BY DEF Flush
<1>2. BytesOK' /\ Kept'
  BY <1>1 DEF BytesOK, Kept
<1>3. LengthKept' /\ FlagsOK'
  BY DEF LengthKept, FlagsOK
<1>4. QED
  BY <1>2, <1>3 DEF IInv

\* A read that gets nothing, or is cut short.
LEMMA ReadFailsKeeps ==
  ASSUME IInv, stage # "done", NEW offset \in Nat, NEW size \in Nat, ReadFails(offset, size)
  PROVE  IInv'
<1>1. CASE Nothing
  <2>1. UNCHANGED <<wire, readBuf, torn, timeouts>>
    BY <1>1 DEF Nothing
  <2>2. BytesOK' /\ torn' \in Reasons \cup {"none"} /\ timeouts' \in 0..MaxTimeouts
    BY <2>1 DEF IInv, BytesOK, FlagsOK
  <2>3. QED
    BY <2>1, <2>2, ReturnKeeps DEF ReadFails
<1>2. CASE CutShort(Missing(offset, size)) /\ UNCHANGED readBuf
  <2>1. PICK k \in 1..(Missing(offset, size) - 1) : Take(k)
    BY <1>2 DEF CutShort
  <2>2. k \in Nat
    BY <2>1
  <2>3. wire' \in Seq(Byte)
    BY <2>1, <2>2, TakeKeeps DEF IInv, BytesOK
  <2>4. timeouts' \in 0..MaxTimeouts
    BY <1>2, StreamAssumption DEF CutShort, IInv, FlagsOK
  <2>5. torn' \in Reasons \cup {"none"}
    BY <1>2, TearIs DEF CutShort, IInv, Reasons
  <2>6. BytesOK'
    BY <1>2, <2>3 DEF IInv, BytesOK
  <2>7. QED
    BY <1>2, <2>4, <2>5, <2>6, ReturnKeeps DEF ReadFails
<1>3. QED
  BY <1>1, <1>2 DEF ReadFails

-----------------------------------------------------------------------------
(* The steps of read_packet.                                               *)

\* The header is read, or was by an earlier call: the buffer holds it.
LEMMA HeaderKeeps == IInv /\ ReadHeader => IInv'
<1> SUFFICES ASSUME IInv, ReadHeader PROVE IInv'
  OBVIOUS
<1>1. Len(readBuf) \in Nat /\ Len(readBuf) <= 5
  BY DEF IInv, BytesOK, Kept, ReadHeader
<1>2. BytesOK' /\ Len(readBuf') = IF Len(readBuf) < 1 THEN 1 ELSE Len(readBuf)
  <2>1. /\ wire' \in Seq(Byte) /\ readBuf' \in Seq(Byte)
        /\ Len(readBuf') = IF Len(readBuf) < 0 + 1 THEN 0 + 1 ELSE Len(readBuf)
    <3>1. /\ wire \in Seq(Byte) /\ readBuf \in Seq(Byte) /\ ReadAll(0, 1)
          /\ 0 \in Nat /\ 1 \in Nat
      BY DEF IInv, BytesOK, ReadHeader
    <3>2. QED
      BY <3>1, ReadAllKeeps
  <2>2. QED
    BY <1>1, <2>1 DEF BytesOK
<1>3. /\ stage = "header" /\ stage' = "length" /\ len' = 1
      /\ UNCHANGED <<rem_len, total, toRead, torn, timeouts>>
  BY DEF ReadHeader
<1>4. QED
  BY <1>1, <1>2, <1>3 DEF IInv, Kept, LengthKept, FlagsOK

\* A byte of the length is the buffer's next; the length is checked before use.
LEMMA LengthKeeps == IInv /\ ReadLength => IInv'
<1> SUFFICES ASSUME IInv, ReadLength PROVE IInv'
  OBVIOUS
<1>1. PICK n \in 1..4 : n = len
  BY DEF IInv, LengthKept, ReadLength
<1>2. Len(readBuf) \in Nat /\ n <= Len(readBuf) /\ Len(readBuf) <= 5
  BY <1>1 DEF IInv, BytesOK, Kept, LengthKept, ReadLength
<1>3. BytesOK' /\ Len(readBuf') = IF Len(readBuf) < n + 1 THEN n + 1 ELSE Len(readBuf)
  BY <1>1, ReadAllKeeps DEF IInv, BytesOK, ReadLength
<1>4. Len(readBuf') \in Nat /\ n + 1 <= Len(readBuf') /\ Len(readBuf') <= 5
  BY <1>1, <1>2, <1>3
<1>5. PICK byte \in Byte : byte = readBuf'[n + 1]
  BY <1>1, <1>3, <1>4 DEF BytesOK
<1>6. Multiplier[n] \in Nat
  BY <1>1 DEF Multiplier
<1>7. PICK rem \in Nat : rem = rem_len + (byte % 128) * Multiplier[n]
  <2>1. byte % 128 \in Nat
    BY <1>5 DEF Byte
  <2>2. (byte % 128) * Multiplier[n] \in Nat
    BY <1>6, <2>1
  <2>3. QED
    BY <2>2 DEF IInv, LengthKept
<1>8. /\ rem_len' = rem
      /\ IF byte >= 128 THEN len' = len + 1 /\ UNCHANGED <<stage, toRead>>
         ELSE /\ stage' = AfterLength(rem)
              /\ toRead' = IF AfterLength(rem) = "drop" THEN BufSize ELSE 0
              /\ UNCHANGED len
      /\ UNCHANGED <<total, torn, timeouts>>
      /\ stage = "length"
  BY <1>1, <1>5, <1>7 DEF ReadLength
<1>9. CASE byte >= 128
  <2>1. Kept' /\ FlagsOK'
    BY <1>4, <1>8, <1>9 DEF IInv, Kept, FlagsOK
  <2>2. LengthKept'
    BY <1>1, <1>4, <1>7, <1>8, <1>9 DEF IInv, LengthKept
  <2>3. QED
    BY <1>3, <2>1, <2>2 DEF IInv
<1>10. CASE ~(byte >= 128)
  <2>1. /\ AfterLength(rem) \in {"drop", "rest", "done"}
        /\ AfterLength(rem) # "drop" => ~TooLong(len + 1, rem)
    BY DEF AfterLength
  <2>2. Kept' /\ FlagsOK'
    BY <1>4, <1>8, <1>10, <2>1 DEF IInv, Kept, FlagsOK
  <2>3. LengthKept'
    BY <1>7, <1>8, <1>10, <2>1, StreamAssumption DEF IInv, LengthKept, TooLong
  <2>4. QED
    BY <1>3, <2>2, <2>3 DEF IInv
<1>11. QED
  BY <1>9, <1>10

\* The rest of a packet fits the buffer.
LEMMA RestKeeps == IInv /\ ReadRest => IInv'
<1> SUFFICES ASSUME IInv, ReadRest PROVE IInv'
  OBVIOUS
<1>1. /\ len + 1 \in Nat /\ rem_len \in Nat /\ ~TooLong(len + 1, rem_len)
  BY DEF IInv, LengthKept, ReadRest
<1>2. BytesOK'
  BY <1>1, ReadAllKeeps DEF IInv, BytesOK, ReadRest
<1>3. stage = "rest" /\ stage' = "done" /\ UNCHANGED <<len, rem_len, total, toRead, torn, timeouts>>
  BY DEF ReadRest, locals
<1>4. QED
  BY <1>1, <1>2, <1>3 DEF IInv, Kept, LengthKept, FlagsOK, TooLong

\* A chunk of a packet that is dropped is a buffer at most.
LEMMA DropKeeps == IInv /\ Drop => IInv'
<1> SUFFICES ASSUME IInv, Drop PROVE IInv'
  OBVIOUS
<1>1. /\ stage = "drop" /\ toRead \in 1..BufSize /\ total \in Nat /\ rem_len \in Nat
      /\ toRead \in Nat /\ Take(toRead) /\ UNCHANGED timeouts
  BY StreamAssumption DEF IInv, LengthKept, Drop
<1>2. wire' \in Seq(Byte) /\ toRead <= Len(wire)
  BY <1>1, TakeKeeps DEF IInv, BytesOK
<1>3. Overwritten(toRead) \in Seq(Byte) /\ Len(Overwritten(toRead)) = Len(readBuf)
  BY <1>1, <1>2, OverwrittenIs DEF IInv, BytesOK
<1>4. timeouts' \in 0..MaxTimeouts /\ torn \in Reasons \cup {"none"}
  BY <1>1 DEF IInv, FlagsOK
<1>5. CASE /\ total + toRead < rem_len
           /\ total' = total + toRead
           /\ toRead' = IF rem_len - (total + toRead) >= BufSize THEN BufSize
                        ELSE rem_len - (total + toRead)
           /\ readBuf' = Overwritten(toRead)
           /\ UNCHANGED <<stage, len, rem_len, torn>>
  <2>1. toRead' \in 1..BufSize /\ toRead' \in Nat /\ total' \in Nat
    BY <1>1, <1>5, StreamAssumption
  <2>2. BytesOK' /\ Kept'
    BY <1>1, <1>2, <1>3, <1>5 DEF IInv, BytesOK, Kept
  <2>3. LengthKept'
    BY <1>1, <1>5, <2>1 DEF IInv, LengthKept
  <2>4. FlagsOK'
    BY <1>1, <1>4, <1>5 DEF IInv, FlagsOK
  <2>5. QED
    BY <2>2, <2>3, <2>4 DEF IInv
<1>6. CASE Flush /\ Returns /\ UNCHANGED torn
  BY <1>2, <1>4, <1>6, FlushKeeps DEF Returns
<1>7. CASE Tear("overread") /\ readBuf' = Overwritten(toRead) /\ Returns
  <2>1. torn' \in Reasons \cup {"none"}
    BY <1>7, TearIs DEF IInv, Reasons
  <2>2. BytesOK'
    BY <1>2, <1>3, <1>7 DEF BytesOK
  <2>3. QED
    BY <1>1, <1>3, <1>4, <1>7, <2>1, <2>2, ReturnKeeps
<1>8. QED
  BY <1>5, <1>6, <1>7 DEF Drop

\* A chunk cut short replaces bytes of the buffer and adds none.
LEMMA DropFailsKeeps == IInv /\ DropFails => IInv'
<1> SUFFICES ASSUME IInv, DropFails PROVE IInv'
  OBVIOUS
<1>1. stage # "done" /\ Returns
  BY DEF DropFails
<1>2. CASE /\ UNCHANGED <<wire, readBuf, timeouts>>
           /\ IF total > 0 THEN Tear("interrupted") ELSE UNCHANGED torn
  <2>1. torn' \in Reasons \cup {"none"}
    BY <1>2, TearIs DEF IInv, FlagsOK, Reasons
  <2>2. BytesOK' /\ timeouts' \in 0..MaxTimeouts
    BY <1>2 DEF IInv, BytesOK, FlagsOK
  <2>3. QED
    BY <1>1, <1>2, <2>1, <2>2, ReturnKeeps
<1>3. CASE CutShort(toRead) /\ readBuf' = Overwritten(Len(wire) - Len(wire'))
  <2>1. PICK k \in 1..(toRead - 1) : Take(k)
    BY <1>3 DEF CutShort
  <2>2. k \in Nat
    BY <2>1
  <2>3. wire' \in Seq(Byte) /\ k <= Len(wire) /\ Len(wire') = Len(wire) - k
    BY <2>1, <2>2, TakeKeeps DEF IInv, BytesOK
  <2>4. Len(wire) - Len(wire') = k
    BY <2>2, <2>3 DEF IInv, BytesOK
  <2>5. readBuf' \in Seq(Byte) /\ Len(readBuf') = Len(readBuf)
    BY <1>3, <2>2, <2>3, <2>4, OverwrittenIs DEF IInv, BytesOK
  <2>6. torn' \in Reasons \cup {"none"}
    BY <1>3, TearIs DEF CutShort, IInv, Reasons
  <2>7. timeouts' \in 0..MaxTimeouts
    BY <1>3, StreamAssumption DEF CutShort, IInv, FlagsOK
  <2>8. BytesOK'
    BY <2>3, <2>5 DEF BytesOK
  <2>9. QED
    BY <1>1, <2>5, <2>6, <2>7, <2>8, ReturnKeeps
<1>4. QED
  BY <1>2, <1>3 DEF DropFails

\* A read that fails leaves at most a header and a length in the buffer.
LEMMA FailureKeeps == IInv /\ ReadFailure => IInv'
<1>1. ASSUME IInv, HeaderFails PROVE IInv'
  BY <1>1, ReadFailsKeeps DEF HeaderFails
<1>2. ASSUME IInv, LengthFails PROVE IInv'
  <2>1. len \in Nat
    BY <1>2 DEF IInv, LengthKept
  <2>2. QED
    BY <1>2, <2>1, ReadFailsKeeps DEF LengthFails
<1>3. ASSUME IInv, RestFails PROVE IInv'
  <2>1. len + 1 \in Nat /\ rem_len \in Nat
    BY <1>3 DEF IInv, LengthKept
  <2>2. QED
    BY <1>3, <2>1, ReadFailsKeeps DEF RestFails
<1>4. QED
  BY <1>1, <1>2, <1>3, DropFailsKeeps DEF ReadFailure

-----------------------------------------------------------------------------
(* The other steps.                                                        *)

\* The broker, the session and the delivery leave no more than is allowed.
LEMMA OtherKeeps ==
  IInv /\ (BadLength \/ Deliver \/ BrokerSends \/ Reconnect \/ ConnectRefused \/ UNCHANGED streamVars)
    => IInv'
<1> SUFFICES ASSUME IInv PROVE
      (BadLength \/ Deliver \/ BrokerSends \/ Reconnect \/ ConnectRefused \/ UNCHANGED streamVars)
        => IInv'
  OBVIOUS
<1>1. /\ wire \in Seq(Byte) /\ readBuf \in Seq(Byte)
      /\ torn \in Reasons \cup {"none"} /\ timeouts \in 0..MaxTimeouts
  BY DEF IInv, BytesOK, FlagsOK
<1>2. ASSUME BadLength PROVE IInv'
  <2>1. UNCHANGED <<wire, readBuf, torn, timeouts>> /\ stage # "done" /\ Returns
    BY <1>2 DEF BadLength
  <2>2. BytesOK'
    BY <1>1, <2>1 DEF BytesOK
  <2>3. QED
    BY <1>1, <2>1, <2>2, ReturnKeeps
<1>3. ASSUME Deliver PROVE IInv'
  BY <1>1, <1>3, FlushKeeps DEF Deliver, Returns
<1>4. ASSUME BrokerSends PROVE IInv'
  <2>1. PICK p \in Packets : wire' = wire \o OnWire(p)
    BY <1>4 DEF BrokerSends
  <2>2. wire' \in Seq(Byte)
    BY <1>1, <2>1, PacketBytes, ConcatProperties
  <2>3. UNCHANGED <<readBuf, stage, len, rem_len, total, toRead, torn, timeouts>>
    BY <1>4 DEF BrokerSends, locals
  <2>4. QED
    BY <2>2, <2>3 DEF IInv, BytesOK, Kept, LengthKept, FlagsOK, TooLong
<1>5. ASSUME Reconnect \/ ConnectRefused PROVE IInv'
  <2>1. Flush /\ stage = "header" /\ UNCHANGED <<stage, len, rem_len, total, toRead>>
    BY <1>5 DEF Reconnect, ConnectRefused, locals
  <2>2. wire' \in Seq(Byte)
    <3>1. <<>> \in Seq(Byte)
      OBVIOUS
    <3>2. wire' = <<>> \/ wire' = wire
      BY <1>5 DEF Reconnect, ConnectRefused
    <3>3. QED
      BY <1>1, <3>1, <3>2
  <2>3. torn' \in Reasons \cup {"none"}
    BY <1>1, <1>5, TearIs DEF Reconnect, ConnectRefused, IInv, Reasons
  <2>4. timeouts' \in 0..MaxTimeouts
    BY <1>1, <1>5, StreamAssumption DEF Reconnect, ConnectRefused
  <2>5. readBuf' \in Seq(Byte) /\ Len(readBuf') = 0
    BY <2>1 DEF Flush
  <2>6. BytesOK' /\ Kept' /\ FlagsOK'
    BY <2>1, <2>2, <2>3, <2>4, <2>5 DEF BytesOK, Kept, FlagsOK
  <2>7. LengthKept'
    BY <2>1 DEF IInv, LengthKept
  <2>8. QED
    BY <2>6, <2>7 DEF IInv
<1>6. ASSUME UNCHANGED streamVars PROVE IInv'
  BY <1>6 DEF streamVars, locals, IInv, BytesOK, Kept, LengthKept, FlagsOK, TooLong
<1>7. QED
  BY <1>2, <1>3, <1>4, <1>5, <1>6

-----------------------------------------------------------------------------
(* The theorem.                                                            *)

\* The buffer is empty at the start.
LEMMA StreamStarts == StreamInit => IInv
<1> SUFFICES ASSUME StreamInit PROVE IInv
  OBVIOUS
<1>1. wire \in Seq(Byte) /\ readBuf \in Seq(Byte) /\ Len(readBuf) = 0
  BY DEF StreamInit
<1>2. QED
  BY <1>1, StreamAssumption DEF StreamInit, IInv, BytesOK, Kept, LengthKept, FlagsOK

\* The invariant bounds the buffer.
LEMMA InvBounds == IInv => WithinBuffer
<1> SUFFICES ASSUME IInv PROVE WithinBuffer
  OBVIOUS
<1>1. /\ \A i \in DOMAIN readBuf : readBuf[i] \in Byte
      /\ Len(readBuf) \in Nat
  BY DEF IInv, BytesOK
<1>2. /\ stage = "header" => readBufIndex \in 0..5
      /\ stage = "length" => len \in 1..5 /\ readBufIndex \in 1..5
  <2>1. PICK k \in Nat : k = readBufIndex
    BY <1>1 DEF readBufIndex
  <2>2. stage # "done" => k <= 5
    BY <2>1 DEF IInv, Kept, readBufIndex
  <2>3. stage = "length" => len \in 1..5 /\ len <= k
    BY <2>1 DEF IInv, LengthKept, readBufIndex
  <2>4. QED
    BY <2>1, <2>2, <2>3
<1>3. /\ stage = "rest" => readBufIndex + Missing(len + 1, rem_len) <= BufSize
      /\ stage = "done" => len + 1 + rem_len <= BufSize
  BY <1>1, StreamAssumption DEF IInv, LengthKept, TooLong, Missing, readBufIndex
<1>4. stage = "drop" => toRead \in 1..BufSize
  BY DEF IInv, LengthKept
<1>5. QED
  BY <1>1, <1>2, <1>3, <1>4 DEF IInv, FlagsOK, WithinBuffer

\* For every size of the buffer that holds a header and a length, whatever packets
\* and pieces of packets arrive: nothing is written beyond the buffer, and read_packet
\* leaves at most a header and a length in it for the next call.
THEOREM BufferHolds == StreamSpec => []WithinBuffer
<1>1. IInv /\ [StreamNext]_streamVars => IInv'
  BY HeaderKeeps, LengthKeeps, RestKeeps, DropKeeps, FailureKeeps, OtherKeeps
     DEF StreamNext, ReadStep
<1>2. QED
  BY StreamStarts, InvBounds, <1>1, PTL DEF StreamSpec

-----------------------------------------------------------------------------
(* The packet being read.                                                  *)

\* How far a packet is read: b are its bytes, n is its length, r what the broker
\* has sent after it.  While no byte of it is dropped, what is in the buffer and
\* what is on the wire are the packet and r.
Reading(b, n, r) ==
  /\ total = 0 => readBuf \o wire = b \o r
  /\ stage \in {"header", "length"} => Len(readBuf) <= 1 + LengthSize(n)
  /\ stage = "length" => len \in 1..LengthSize(n) /\ rem_len = Partly(n, len - 1)
  /\ stage \in {"rest", "drop", "done"} => len = LengthSize(n) /\ rem_len = n
  /\ stage \in {"rest", "drop"} => Len(readBuf) = 1 + LengthSize(n)
  /\ stage = "done" => Len(readBuf) = Len(b)
  /\ stage \in {"rest", "done"} => Len(b) < BufSize
  /\ stage = "drop" => ~(Len(b) < BufSize)
  /\ total > 0 => EndsWith(wire, r, n - total)

\* The lengths of a packet.
LEMMA FrameIs ==
  ASSUME NEW b, NEW n, Framed(b, n)
  PROVE  /\ b \in Seq(Byte) /\ n \in Nat /\ LengthSize(n) \in 1..4 /\ LengthSize(n) \in Nat
         /\ Len(b) = 1 + LengthSize(n) + n
<1>1. n \in Nat
  BY DEF Framed
<1> QED
  BY <1>1, SizeIs DEF Framed

\* What is read moves from the wire to the buffer.
LEMMA ReadAllMoves ==
  ASSUME wire \in Seq(Byte), readBuf \in Seq(Byte), NEW offset \in Nat, NEW size \in Nat,
         ReadAll(offset, size)
  PROVE  readBuf' \o wire' = readBuf \o wire
<1>1. CASE Missing(offset, size) > 0
  <2>1. PICK n \in Nat : n = Missing(offset, size)
    <3>1. Missing(offset, size) \in Int
      BY DEF Missing, readBufIndex
    <3> QED
      BY <1>1, <3>1
  <2>2. Take(n) /\ readBuf' = readBuf \o SubSeq(wire, 1, n)
    BY <1>1, <2>1 DEF ReadAll
  <2>3. n <= Len(wire) /\ wire' = SubSeq(wire, n + 1, Len(wire))
    BY <2>2 DEF Take
  <2>4. SubSeq(wire, 1, n) \in Seq(Byte) /\ wire' \in Seq(Byte)
    BY <2>2, TakeKeeps
  <2>5. SubSeq(wire, 1, n) \o wire' = wire
    BY <2>3, CutAndJoin, Zenon
  <2>6. PICK a \in Seq(Byte) : a = SubSeq(wire, 1, n)
    BY <2>4
  <2>7. (readBuf \o a) \o wire' = readBuf \o (a \o wire')
    BY <2>4, <2>6, Associates, Zenon
  <2> QED
    BY <2>2, <2>5, <2>6, <2>7, Zenon
<1>2. CASE ~(Missing(offset, size) > 0)
  BY <1>2 DEF ReadAll
<1> QED
  BY <1>1, <1>2

\* The header is read.
LEMMA HeaderReads ==
  ASSUME IInv, NEW b, NEW n, NEW r, Framed(b, n), Reading(b, n, r), ReadHeader
  PROVE  Reading(b, n, r)'
<1>1. PICK l \in 1..4 : l = LengthSize(n) /\ l \in Nat
  BY FrameIs
<1>2. /\ stage = "header" /\ ReadAll(0, 1) /\ stage' = "length" /\ len' = 1 /\ rem_len' = rem_len
      /\ 0 \in Nat /\ 1 \in Nat
  BY DEF ReadHeader
<1>3. wire \in Seq(Byte) /\ readBuf \in Seq(Byte) /\ rem_len = 0 /\ total = 0 /\ UNCHANGED total
  BY <1>2 DEF IInv, BytesOK, LengthKept, ReadHeader
<1>4. readBuf' \o wire' = b \o r
  BY <1>2, <1>3, ReadAllMoves DEF Reading
<1>5. Len(readBuf') <= 1 + l
  <2>1. Len(readBuf') = IF Len(readBuf) < 0 + 1 THEN 0 + 1 ELSE Len(readBuf)
    BY <1>2, <1>3, ReadAllKeeps
  <2>2. Len(readBuf) <= 1 + l
    BY <1>1, <1>2 DEF Reading
  <2> QED
    BY <1>1, <2>1, <2>2
<1>6. rem_len' = Partly(n, len' - 1) /\ len' \in 1..l
  <2>1. Partly(n, 0) = 0
    <3>1. 1 \in 1..LengthSize(n)
      BY <1>1
    <3> QED
      BY <3>1, LengthGoesOn
  <2>2. len' - 1 = 0
    BY <1>2
  <2> QED
    BY <1>1, <1>2, <1>3, <2>1, <2>2
<1> QED
  BY <1>1, <1>2, <1>3, <1>4, <1>5, <1>6 DEF Reading

\* A byte of the length is read: it is the packet's.
LEMMA LengthReads ==
  ASSUME IInv, NEW b, NEW n, NEW r \in Seq(Byte), Framed(b, n), Reading(b, n, r), ReadLength
  PROVE  Reading(b, n, r)'
<1>1. PICK l \in 1..4 : l = LengthSize(n) /\ l \in Nat
  BY FrameIs
<1>2. /\ b \in Seq(Byte) /\ n \in Nat /\ Len(b) = 1 + l + n
  BY <1>1, FrameIs
<1>3. PICK j \in 1..l : j = len /\ j \in Nat
  BY <1>1 DEF ReadLength, Reading
<1>4. /\ stage = "length" /\ ReadAll(len, 1) /\ len \in Nat /\ 1 \in Nat
  BY <1>3 DEF ReadLength
<1>5. wire \in Seq(Byte) /\ readBuf \in Seq(Byte) /\ total = 0
  BY <1>4 DEF IInv, BytesOK, LengthKept
<1>6. readBuf' \o wire' = b \o r
  BY <1>4, <1>5, ReadAllMoves DEF Reading
<1>7. /\ wire' \in Seq(Byte) /\ readBuf' \in Seq(Byte)
      /\ Len(readBuf') = IF Len(readBuf) < j + 1 THEN j + 1 ELSE Len(readBuf)
  BY <1>3, <1>4, <1>5, ReadAllKeeps
<1>8. Len(readBuf) \in Nat /\ Len(readBuf) <= 1 + l
  BY <1>1, <1>4, <1>5 DEF Reading
<1>9. /\ Len(readBuf') <= 1 + l /\ Len(readBuf') <= Len(b) /\ j + 1 \in 1..Len(readBuf')
      /\ j = l => Len(readBuf') = 1 + l
  BY <1>1, <1>2, <1>3, <1>7, <1>8
<1>10. readBuf'[j + 1] = b[j + 1]
  <2>1. PICK x \in Seq(Byte), w \in Seq(Byte) : x = readBuf' /\ w = wire'
    BY <1>7
  <2>2. x \o w = b \o r /\ Len(x) <= Len(b) /\ j + 1 \in 1..Len(x)
    BY <1>6, <1>9, <2>1
  <2>3. BeginsWith(b, x)
    BY <1>2, <2>2, SameBytes, Zenon
  <2> QED
    BY <2>1, <2>2, <2>3 DEF BeginsWith
<1>11. PICK byte : byte = b[j + 1]
  OBVIOUS
<1>12. /\ byte \in Byte
       /\ byte >= 128 <=> j < l
       /\ Partly(n, j) = Partly(n, j - 1) + (byte % 128) * Multiplier[j]
       /\ Partly(n, l) = n
  <2>1. j \in 1..LengthSize(n)
    BY <1>1, <1>3
  <2>2. /\ b[j + 1] \in Byte
        /\ b[j + 1] >= 128 <=> j < LengthSize(n)
        /\ Partly(n, j) = Partly(n, j - 1) + (b[j + 1] % 128) * Multiplier[j]
        /\ Partly(n, LengthSize(n)) = n
    BY <2>1, LengthGoesOn
  <2> QED
    BY <1>1, <1>11, <2>2, Zenon
<1>13. PICK rem : rem = Partly(n, j)
  OBVIOUS
<1>14. rem_len = Partly(n, j - 1)
  BY <1>3, <1>4 DEF Reading
<1>15. rem = rem_len + (byte % 128) * Multiplier[j]
  BY <1>12, <1>13, <1>14, Zenon
<1>16. /\ rem_len' = rem
       /\ IF byte >= 128 THEN len' = len + 1 /\ UNCHANGED <<stage, toRead>>
          ELSE stage' = AfterLength(rem) /\ UNCHANGED len
       /\ UNCHANGED total
  <2>1. readBuf'[len + 1] = byte /\ rem_len + (byte % 128) * Multiplier[len] = rem
    BY <1>3, <1>10, <1>11, <1>15
  <2> QED
    BY <2>1 DEF ReadLength
<1>17. CASE byte >= 128
  <2>1. stage' = "length" /\ len' = j + 1 /\ j < l
    BY <1>3, <1>4, <1>12, <1>16, <1>17
  <2>2. len' \in 1..l /\ len' - 1 = j
    BY <1>1, <1>3, <2>1
  <2>3. rem_len' = Partly(n, len' - 1)
    BY <1>13, <1>16, <2>2
  <2> QED
    BY <1>1, <1>5, <1>6, <1>9, <1>16, <2>1, <2>2, <2>3 DEF Reading
<1>18. CASE ~(byte >= 128)
  <2>1. j = l /\ rem = n
    <3>1. ~(j < l)
      BY <1>12, <1>18
    <3>2. j = l
      BY <1>3, <3>1
    <3> QED
      BY <1>12, <1>13, <3>2
  <2>2. /\ stage' = AfterLength(n) /\ len' = l /\ rem_len' = n
    BY <1>3, <1>16, <1>18, <2>1
  <2>3. /\ TooLong(len + 1, n) <=> ~(Len(b) < BufSize)
        /\ total' = 0
    BY SMTT(30), <1>1, <1>2, <1>3, <1>5, <1>16, <2>1, StreamAssumption DEF TooLong
  <2>4. Len(readBuf') = 1 + l
    BY <1>9, <2>1
  <2>5. CASE stage' = "drop"
    <3>1. ~(Len(b) < BufSize)
      BY <2>2, <2>3, <2>5 DEF AfterLength
    <3> QED
      BY <1>1, <1>6, <2>2, <2>3, <2>4, <2>5, <3>1 DEF Reading
  <2>6. CASE stage' = "rest"
    <3>1. Len(b) < BufSize
      BY <2>2, <2>3, <2>6 DEF AfterLength
    <3> QED
      BY <1>1, <1>6, <2>2, <2>3, <2>4, <2>6, <3>1 DEF Reading
  <2>7. CASE stage' = "done"
    <3>1. Len(b) < BufSize /\ ~(n > 0)
      BY <2>2, <2>3, <2>7 DEF AfterLength
    <3>2. Len(readBuf') = Len(b)
      BY <1>1, <1>2, <2>4, <3>1
    <3> QED
      BY <1>1, <1>6, <2>2, <2>3, <2>7, <3>1, <3>2 DEF Reading
  <2> QED
    BY <2>2, <2>5, <2>6, <2>7 DEF AfterLength
<1> QED
  BY <1>17, <1>18

\* The rest is read.
LEMMA RestReads ==
  ASSUME IInv, NEW b, NEW n, NEW r, Framed(b, n), Reading(b, n, r), ReadRest
  PROVE  Reading(b, n, r)'
<1>1. PICK l \in 1..4 : /\ l = LengthSize(n) /\ l \in Nat /\ b \in Seq(Byte) /\ n \in Nat
                        /\ Len(b) = 1 + l + n
  BY FrameIs
<1>2. /\ stage = "rest" /\ len = l /\ rem_len = n /\ Len(readBuf) = 1 + l /\ Len(b) < BufSize
      /\ stage' = "done" /\ UNCHANGED <<len, rem_len, total>> /\ ReadAll(len + 1, rem_len)
  BY <1>1 DEF ReadRest, Reading, locals
<1>3. wire \in Seq(Byte) /\ readBuf \in Seq(Byte) /\ total = 0
  BY <1>2 DEF IInv, BytesOK, LengthKept
<1>4. l + 1 \in Nat /\ ReadAll(l + 1, n)
  BY <1>1, <1>2
<1>5. readBuf' \o wire' = b \o r
  BY <1>1, <1>3, <1>4, ReadAllMoves DEF Reading
<1>6. Len(readBuf') = Len(b)
  <2>1. Len(readBuf') = IF Len(readBuf) < (l + 1) + n THEN (l + 1) + n ELSE Len(readBuf)
    BY <1>1, <1>3, <1>4, ReadAllKeeps
  <2> QED
    BY <1>1, <1>2, <2>1
<1> QED
  BY <1>1, <1>2, <1>3, <1>5, <1>6 DEF Reading

\* A read that got nothing is gone on with by the next call, from the header and
\* what is there of the length.
LEMMA ReturnReads ==
  ASSUME NEW b, NEW n, NEW r, Framed(b, n), Reading(b, n, r),
         stage \in {"header", "length", "rest", "drop"}, total = 0,
         Returns, UNCHANGED <<wire, readBuf>>
  PROVE  Reading(b, n, r)'
<1>1. PICK l \in 1..4 : l = LengthSize(n) /\ l \in Nat
  BY FrameIs
<1>2. stage' = "header" /\ total' = 0
  BY DEF Returns
<1>3. readBuf' \o wire' = b \o r
  BY DEF Reading
<1>4. Len(readBuf') <= 1 + LengthSize(n)
  BY <1>1 DEF Reading
<1> QED
  BY <1>2, <1>3, <1>4 DEF Reading

\* While the stream is not torn, a read that fails got nothing.
LEMMA FailureReads ==
  ASSUME IInv, NEW b, NEW n, NEW r, Framed(b, n), Reading(b, n, r), torn' = "none",
         ReadFailure \/ BadLength
  PROVE  Reading(b, n, r)'
<1>1. ASSUME NEW offset, NEW size, ReadFails(offset, size)
      PROVE  Returns /\ UNCHANGED <<wire, readBuf>>
  BY <1>1 DEF ReadFails, Nothing, CutShort, Tear
<1>2. CASE HeaderFails
  <2>1. stage = "header" /\ Returns /\ UNCHANGED <<wire, readBuf>>
    BY <1>1, <1>2 DEF HeaderFails
  <2> QED
    BY <2>1, ReturnReads DEF IInv, LengthKept
<1>3. CASE LengthFails
  <2>1. stage = "length" /\ Returns /\ UNCHANGED <<wire, readBuf>>
    BY <1>1, <1>3 DEF LengthFails
  <2> QED
    BY <2>1, ReturnReads DEF IInv, LengthKept
<1>4. CASE RestFails
  <2>1. stage = "rest" /\ Returns /\ UNCHANGED <<wire, readBuf>>
    BY <1>1, <1>4 DEF RestFails
  <2> QED
    BY <2>1, ReturnReads DEF IInv, LengthKept
<1>5. CASE DropFails
  <2>1. stage = "drop" /\ Returns /\ UNCHANGED <<wire, readBuf>> /\ ~(total > 0)
    BY <1>5 DEF DropFails, CutShort, Tear
  <2>2. total = 0
    BY <2>1 DEF IInv, LengthKept
  <2> QED
    BY <2>1, <2>2, ReturnReads
<1>6. CASE BadLength
  <2>1. stage = "length" /\ len > 4
    BY <1>6 DEF BadLength
  <2>2. len \in 1..LengthSize(n) /\ LengthSize(n) \in 1..4
    BY <2>1, FrameIs DEF Reading
  <2> QED
    BY <2>1, <2>2
<1> QED
  BY <1>2, <1>3, <1>4, <1>5, <1>6 DEF ReadFailure

\* What is still there of a packet that is dropped.
LEMMA DropRest ==
  ASSUME IInv, NEW b, NEW n, NEW r \in Seq(Byte), Framed(b, n), Reading(b, n, r), stage = "drop"
  PROVE  EndsWith(wire, r, n - total)
<1>1. CASE total > 0
  BY <1>1 DEF Reading
<1>2. CASE ~(total > 0)
  <2>1. total = 0
    BY <1>2 DEF IInv, LengthKept
  <2>2. PICK l \in Nat : l = LengthSize(n) /\ b \in Seq(Byte) /\ n \in Nat /\ Len(b) = 1 + l + n
    BY FrameIs
  <2>3. readBuf \o wire = b \o r /\ Len(readBuf) = 1 + l
    BY <2>1, <2>2 DEF Reading
  <2>4. PICK x \in Seq(Byte), w \in Seq(Byte) : x = readBuf /\ w = wire
    BY DEF IInv, BytesOK
  <2>5. x \o w = b \o r
    BY <2>3, <2>4
  <2>6. Len(x) <= Len(b) /\ Len(b) - Len(x) = n /\ n - total = n
    <3>1. Len(x) = 1 + l
      BY <2>3, <2>4
    <3> QED
      BY <2>1, <2>2, <3>1
  <2>7. EndsWith(w, r, Len(b) - Len(x))
    BY <2>2, <2>5, <2>6, SameBytes
  <2> QED
    BY <2>4, <2>6, <2>7
<1> QED
  BY <1>1, <1>2

\* A chunk of a packet that does not fit is gone.
LEMMA ChunkReads ==
  ASSUME IInv, NEW b, NEW n, NEW r \in Seq(Byte), Framed(b, n), Reading(b, n, r),
         stage = "drop", Take(toRead), total + toRead <= rem_len
  PROVE  /\ EndsWith(wire', r, n - (total + toRead))
         /\ total + toRead = rem_len => wire' = r
<1>1. PICK c \in Seq(Byte) : wire = c \o r /\ Len(c) = n - total
  BY DropRest DEF EndsWith
<1>2. rem_len = n /\ total \in Nat /\ toRead \in Nat /\ n \in Nat
  BY FrameIs DEF IInv, LengthKept, Reading
<1>3. toRead <= Len(c) /\ (total + toRead = rem_len <=> toRead = Len(c))
      /\ Len(c) - toRead = n - (total + toRead)
  BY <1>1, <1>2
<1>4. PICK d \in Seq(Byte) : IsBehind(c, r, toRead, d)
  BY <1>2, <1>3, Behind, Zenon
<1>5. wire' = SubSeq(wire, toRead + 1, Len(wire))
  BY DEF Take
<1>6. wire' = d \o r /\ (toRead = Len(c) => wire' = r) /\ Len(d) = Len(c) - toRead
  BY <1>1, <1>4, <1>5, Zenon DEF IsBehind
<1>7. Len(d) = n - (total + toRead)
  BY <1>3, <1>6
<1> QED
  BY <1>3, <1>6, <1>7 DEF EndsWith

\* More of the packet is to be dropped.
LEMMA DropReads ==
  ASSUME IInv, NEW b, NEW n, NEW r \in Seq(Byte), Framed(b, n), Reading(b, n, r),
         Drop, stage' = "drop"
  PROVE  Reading(b, n, r)'
<1>1. /\ stage = "drop" /\ Take(toRead) /\ total + toRead < rem_len /\ total' = total + toRead
      /\ readBuf' = Overwritten(toRead) /\ UNCHANGED <<len, rem_len>>
  BY DEF Drop, Returns
<1>2. total \in Nat /\ toRead \in Nat /\ toRead > 0 /\ rem_len \in Nat
  BY <1>1 DEF IInv, LengthKept
<1>3. EndsWith(wire', r, n - (total + toRead))
  <2>1. total + toRead <= rem_len
    BY <1>1, <1>2
  <2> QED
    BY <1>1, <2>1, ChunkReads
<1>4. Len(readBuf') = Len(readBuf)
  <2>1. wire \in Seq(Byte) /\ readBuf \in Seq(Byte)
    BY DEF IInv, BytesOK
  <2>2. toRead <= Len(wire)
    BY <1>1 DEF Take
  <2> QED
    BY <1>1, <1>2, <2>1, <2>2, OverwrittenIs
<1>5. total' > 0 /\ total' # 0
  BY <1>1, <1>2
<1> QED
  BY <1>1, <1>3, <1>4, <1>5 DEF Reading

-----------------------------------------------------------------------------
(* The place in the session.                                               *)

\* The packet with the bytes b is being read, and r follows.
IsRead(b, r) == \E n \in Nat : Framed(b, n) /\ Reading(b, n, r)

\* The first k of the packets s are read.  The bytes are those of the next one,
\* and of the others behind it.
Place(k, s, rest, heard) ==
  /\ sent = s /\ s \in Seq(Packets) /\ Course(s, rest, heard)
  /\ k \in 0..Len(s) /\ delivered = heard[k]
  /\ k = Len(s) => stage = "header" /\ readBuf = <<>> /\ wire = <<>>
  /\ k < Len(s) => IsRead(OnWire(s[k + 1]), rest[k + 1])

InOrder == torn = "none" => \E k, s, rest, heard : Place(k, s, rest, heard)

\* What is delivered when p is read.
Hears(h, p) == IF Fits(p) THEN Append(h, p) ELSE h

\* The packet behind the first k.
Follows(k, s, rest, heard) ==
  /\ k + 1 \in 0..Len(s) /\ s[k + 1] \in Packets
  /\ rest[k] = OnWire(s[k + 1]) \o rest[k + 1]
  /\ heard[k + 1] = Hears(heard[k], s[k + 1])

\* What the course of a session says of its packets.
LEMMA CourseIs ==
  ASSUME NEW s \in Seq(Packets), NEW rest, NEW heard, Course(s, rest, heard)
  PROVE  /\ rest[Len(s)] = <<>>
         /\ \A i \in 0..Len(s) : rest[i] \in Seq(Byte) /\ heard[i] \in Seq(Packets)
         /\ \A k \in 0..Len(s) : k < Len(s) => Follows(k, s, rest, heard)
<1>1. PICK n \in Nat : n = Len(s)
  OBVIOUS
<1>2. /\ rest \in [0..n -> Seq(Byte)] /\ heard \in [0..n -> Seq(Packets)]
      /\ rest[n] = <<>>
      /\ \A i \in 1..n : /\ rest[i - 1] = OnWire(s[i]) \o rest[i]
                         /\ heard[i] = Hears(heard[i - 1], s[i])
  BY <1>1, Zenon DEF Course, Hears
<1>3. ASSUME NEW k \in 0..n, k < n
      PROVE  Follows(k, s, rest, heard)
  <2>1. PICK i \in 1..n : i = k + 1 /\ i - 1 = k /\ i \in 0..n
    <3>1. k + 1 \in 1..n /\ (k + 1) - 1 = k /\ k + 1 \in 0..n
      BY <1>1, <1>3
    <3> QED
      BY <3>1
  <2>2. s[i] \in Packets
    BY <1>1, <2>1, ElementOfSeq
  <2>3. /\ rest[i - 1] = OnWire(s[i]) \o rest[i]
        /\ heard[i] = Hears(heard[i - 1], s[i])
    BY <1>2, <2>1, Zenon
  <2> QED
    BY <1>1, <2>1, <2>2, <2>3, Zenon DEF Follows
<1>4. \A i \in 0..n : rest[i] \in Seq(Byte) /\ heard[i] \in Seq(Packets)
  BY <1>2
<1> QED
  BY <1>1, <1>2, <1>3, <1>4, Zenon

\* A packet begins with an empty buffer, or all packets are read.
LEMMA PlaceBegins ==
  ASSUME NEW s \in Seq(Packets), NEW rest, NEW heard, Course(s, rest, heard), NEW k \in 0..Len(s),
         sent' = s, delivered' = heard[k], wire' = rest[k],
         stage' = "header", total' = 0, readBuf' = <<>>
  PROVE  Place(k, s, rest, heard)'
<1>1. k = Len(s) => wire' = <<>>
  BY CourseIs
<1>2. ASSUME k < Len(s) PROVE IsRead(OnWire(s[k + 1]), rest[k + 1])'
  <2>1. /\ k + 1 \in 0..Len(s) /\ s[k + 1] \in Packets
        /\ rest[k] = OnWire(s[k + 1]) \o rest[k + 1] /\ rest[k] \in Seq(Byte)
    BY <1>2, CourseIs, Zenon DEF Follows
  <2>2. PICK b, r : b = OnWire(s[k + 1]) /\ r = rest[k + 1]
    OBVIOUS
  <2>3. PICK n \in Nat : Framed(b, n)
    BY <2>1, <2>2, PacketUnderstood, Zenon
  <2>4. readBuf' \o wire' = b \o r
    <3>1. <<>> \o rest[k] = rest[k]
      BY <2>1, ConcatEmptySeq
    <3> QED
      BY <2>1, <2>2, <3>1
  <2>5. LengthSize(n) \in Nat /\ Len(readBuf') = 0
    BY <2>3, FrameIs
  <2>6. Reading(b, n, r)'
    BY <2>4, <2>5 DEF Reading
  <2>7. IsRead(b, r)'
    BY <2>3, <2>6 DEF IsRead
  <2> QED
    BY <2>2, <2>7
<1> QED
  BY <1>1, <1>2 DEF Place

\* A step of read_packet within a packet.
LEMMA StepReads ==
  ASSUME IInv, NEW b, NEW r \in Seq(Byte), IsRead(b, r), torn' = "none",
         \/ ReadHeader \/ ReadLength \/ ReadRest \/ BadLength \/ ReadFailure
         \/ Drop /\ stage' = "drop"
  PROVE  IsRead(b, r)'
<1>1. PICK n \in Nat : Framed(b, n) /\ Reading(b, n, r)
  BY DEF IsRead
<1>2. Reading(b, n, r)'
  BY <1>1, HeaderReads, LengthReads, RestReads, FailureReads, DropReads
<1> QED
  BY <1>1, <1>2 DEF IsRead

\* A packet is read to its end and handled, or dropped whole.
LEMMA PacketEnds ==
  ASSUME IInv, NEW p \in Packets, NEW r \in Seq(Byte), IsRead(OnWire(p), r), torn = "none", torn' = "none",
         Deliver \/ (Drop /\ stage' # "drop")
  PROVE  /\ wire' = r /\ stage' = "header" /\ total' = 0 /\ readBuf' = <<>>
         /\ delivered' = Hears(delivered, p)
         /\ UNCHANGED sent
<1>0. PICK b : b = OnWire(p)
  OBVIOUS
<1>1. PICK n \in Nat : b = OnWire(p) /\ Framed(b, n) /\ Reading(b, n, r)
  BY <1>0 DEF IsRead
<1>2. Fits(p) <=> Len(b) < BufSize
  BY <1>1 DEF Fits
<1>3. CASE Deliver
  <2>1. /\ stage = "done" /\ readBuf' = <<>> /\ stage' = "header" /\ total' = 0 /\ UNCHANGED <<wire, sent>>
        /\ delivered' = Append(delivered, Understood(SubSeq(readBuf, 1, len + 1 + rem_len)))
    BY <1>3 DEF Deliver, Flush, Returns
  <2>2. PICK x \in Seq(Byte), w \in Seq(Byte) : x = readBuf /\ w = wire
    BY DEF IInv, BytesOK
  <2>3. PICK l \in Nat : l = LengthSize(n) /\ b \in Seq(Byte) /\ Len(b) = 1 + l + n
    BY <1>1, FrameIs
  <2>4. total = 0
    BY <2>1 DEF IInv, LengthKept
  <2>5. x \o w = b \o r /\ Len(x) = Len(b) /\ len = l /\ rem_len = n /\ Len(b) < BufSize
    BY <1>1, <2>1, <2>2, <2>3, <2>4 DEF Reading
  <2>6. Len(x) <= Len(b)
    BY <2>3, <2>5
  <2>7. x = b /\ w = r
    BY <2>3, <2>5, <2>6, SameBytes, Zenon
  <2>8. SubSeq(readBuf, 1, len + 1 + rem_len) = b
    <3>1. len + 1 + rem_len = Len(b)
      BY <2>3, <2>5
    <3>2. SubSeq(b, 1, Len(b)) = b
      BY <2>3
    <3> QED
      BY <2>2, <2>7, <3>1, <3>2
  <2>9. Understood(b) = p
    BY <1>1, PacketUnderstood
  <2> QED
    BY <1>2, <2>1, <2>2, <2>5, <2>7, <2>8, <2>9 DEF Hears
<1>4. CASE Drop /\ stage' # "drop"
  <2>1. /\ stage = "drop" /\ Take(toRead) /\ total + toRead = rem_len
        /\ readBuf' = <<>> /\ stage' = "header" /\ total' = 0 /\ UNCHANGED <<sent, delivered>>
    BY <1>4 DEF Drop, Flush, Returns, Tear
  <2>2. total + toRead <= rem_len
    BY <2>1 DEF IInv, LengthKept
  <2>3. wire' = r
    BY <1>1, <2>1, <2>2, ChunkReads
  <2>4. ~(Len(b) < BufSize)
    BY <1>1, <2>1 DEF Reading
  <2> QED
    BY <1>2, <2>1, <2>3, <2>4 DEF Hears
<1> QED
  BY <1>3, <1>4

\* A packet that is sent follows those before it.
LEMMA SentReads ==
  ASSUME IInv, NEW b, NEW r \in Seq(Byte), IsRead(b, r), NEW q \in Seq(Byte), wire' = wire \o q,
         UNCHANGED <<readBuf, stage, len, rem_len, total>>
  PROVE  IsRead(b, r \o q)'
<1>1. PICK n \in Nat : Framed(b, n) /\ Reading(b, n, r)
  BY DEF IsRead
<1>2. wire \in Seq(Byte) /\ readBuf \in Seq(Byte) /\ b \in Seq(Byte)
  BY <1>1 DEF IInv, BytesOK, Framed
<1>3. ASSUME total' = 0 PROVE readBuf' \o wire' = b \o (r \o q)
  <2>1. readBuf \o wire = b \o r
    BY <1>1, <1>3 DEF Reading
  <2>2. PICK x \in Seq(Byte), w \in Seq(Byte), c \in Seq(Byte) : x = readBuf /\ w = wire /\ c = b
    BY <1>2
  <2>3. (x \o w) \o q = x \o (w \o q)
    BY Associates, ZenonT(30)
  <2>4. (c \o r) \o q = c \o (r \o q)
    BY Associates, Zenon
  <2> QED
    BY <2>1, <2>2, <2>3, <2>4, Zenon
<1>4. ASSUME total' > 0 PROVE EndsWith(wire', r \o q, n - total')
  <2>1. PICK c \in Seq(Byte) : wire = c \o r /\ Len(c) = n - total
    BY <1>1, <1>4 DEF Reading, EndsWith
  <2>2. (c \o r) \o q = c \o (r \o q)
    BY Associates, Zenon
  <2>3. wire' = c \o (r \o q) /\ Len(c) = n - total'
    BY <2>1, <2>2
  <2> QED
    BY <2>3 DEF EndsWith
<1>5. Reading(b, n, r \o q)'
  BY <1>1, <1>3, <1>4 DEF Reading
<1> QED
  BY <1>1, <1>5 DEF IsRead

-----------------------------------------------------------------------------
(* The steps, and the theorem.                                             *)

\* Only a new session mends a stream that is torn.
LEMMA TornStays ==
  StreamNext /\ ~Reconnect /\ torn' = "none" => torn = "none"
<1>1. \A reason : Tear(reason) /\ torn' = "none" => torn = "none"
  BY DEF Tear
<1>2. \A offset, size : ReadFails(offset, size) /\ torn' = "none" => torn = "none"
  BY <1>1 DEF ReadFails, Nothing, CutShort
<1>3. ReadStep /\ torn' = "none" => torn = "none"
  BY <1>1 DEF ReadStep, ReadHeader, ReadLength, BadLength, ReadRest, Deliver, Drop
<1>4. ReadFailure /\ torn' = "none" => torn = "none"
  BY <1>1, <1>2 DEF ReadFailure, HeaderFails, LengthFails, RestFails, DropFails, CutShort
<1>5. BrokerSends \/ ConnectRefused => (torn' = "none" => torn = "none")
  BY <1>1 DEF BrokerSends, ConnectRefused
<1> QED
  BY <1>3, <1>4, <1>5 DEF StreamNext

\* A new session is at its start.
LEMMA SessionStarts ==
  ASSUME IInv, Reconnect
  PROVE  \E k, s, rest, heard : Place(k, s, rest, heard)'
<1>1. PICK s \in Seq(Packets) : s = <<>> /\ Len(s) = 0
  BY CourseStarts
<1>2. PICK rest, heard : Course(s, rest, heard)
  BY <1>1, CourseStarts
<1>3. rest[0] = <<>> /\ heard[0] = <<>> /\ 0 \in 0..Len(s)
  BY <1>1, <1>2 DEF Course
<1>4. /\ sent' = s /\ delivered' = heard[0] /\ wire' = rest[0]
      /\ stage' = "header" /\ total' = 0 /\ readBuf' = <<>>
  BY <1>1, <1>3 DEF Reconnect, Flush, locals, IInv, LengthKept
<1>5. Place(0, s, rest, heard)'
  BY <1>2, <1>3, <1>4, PlaceBegins
<1> QED
  BY <1>5

\* A packet that the broker sends comes last.
LEMMA BrokerKeepsPlace ==
  ASSUME IInv, NEW k, NEW s, NEW rest, NEW heard, Place(k, s, rest, heard), BrokerSends
  PROVE  \E t, r, h : Place(k, t, r, h)'
<1>1. PICK p \in Packets : sent' = Append(sent, p) /\ wire' = wire \o OnWire(p)
  BY DEF BrokerSends
<1>2. UNCHANGED <<readBuf, stage, len, rem_len, total, delivered>>
  BY DEF BrokerSends, locals
<1>3. PICK n \in Nat : n = Len(s) /\ s \in Seq(Packets) /\ sent = s /\ Course(s, rest, heard) /\ k \in 0..n
  BY DEF Place
<1>4. PICK q \in Seq(Byte) : q = OnWire(p)
  BY PacketBytes
<1>5. PICK t : t = Append(s, p)
  OBVIOUS
<1>9. /\ t \in Seq(Packets) /\ Len(t) = n + 1 /\ \A i \in 1..n : t[i] = s[i]
      /\ \E r, h : Course(t, r, h) /\ \A i \in 0..n : r[i] = rest[i] \o q /\ h[i] = heard[i]
  <2>1. /\ Append(s, p) \in Seq(Packets) /\ Len(Append(s, p)) = Len(s) + 1
        /\ \A i \in 1..Len(s) : Append(s, p)[i] = s[i]
        /\ \E r, h : /\ Course(Append(s, p), r, h)
                     /\ \A i \in 0..Len(s) : r[i] = rest[i] \o OnWire(p) /\ h[i] = heard[i]
    BY <1>3, CourseGoesOn
  <2>2. PICK r, h : /\ Course(Append(s, p), r, h)
                    /\ \A i \in 0..Len(s) : r[i] = rest[i] \o OnWire(p) /\ h[i] = heard[i]
    BY <2>1, Zenon
  <2>3. Course(t, r, h) /\ \A i \in 0..n : r[i] = rest[i] \o q /\ h[i] = heard[i]
    BY <1>3, <1>4, <1>5, <2>2, Zenon
  <2>4. t \in Seq(Packets) /\ Len(t) = n + 1
    BY <1>3, <1>5, <2>1
  <2>5. \A i \in 1..n : t[i] = s[i]
    BY <1>3, <1>5, <2>1, Zenon
  <2>6. \E x, y : Course(t, x, y) /\ \A i \in 0..n : x[i] = rest[i] \o q /\ y[i] = heard[i]
    BY <2>3, ZenonT(30)
  <2> QED
    BY <2>4, <2>5, <2>6, Zenon
<1>10. PICK r, h : Course(t, r, h) /\ \A i \in 0..n : r[i] = rest[i] \o q /\ h[i] = heard[i]
  BY <1>9, Zenon
<1>6. sent' = t /\ wire' = wire \o q /\ k \in 0..Len(t) /\ delivered' = h[k]
  <2>1. delivered' = heard[k]
    BY <1>2 DEF Place
  <2>2. k \in 0..(n + 1)
    BY <1>3
  <2> QED
    BY <1>1, <1>3, <1>4, <1>5, <1>9, <1>10, <2>1, <2>2
<1>7. CASE k = n
  <2>1. stage = "header" /\ readBuf = <<>> /\ wire = <<>>
    BY <1>3, <1>7 DEF Place
  <2>2. total = 0
    BY <2>1 DEF IInv, LengthKept
  <2>3. rest[k] = wire
    BY <1>3, <1>7, <2>1, CourseIs
  <2>4. wire' = r[k] /\ stage' = "header" /\ total' = 0 /\ readBuf' = <<>>
    BY <1>2, <1>3, <1>5, <1>9, <1>10, <1>6, <2>1, <2>2, <2>3
  <2>5. Place(k, t, r, h)'
    BY <1>5, <1>9, <1>10, <1>6, <2>4, PlaceBegins
  <2> QED
    BY <1>6, <2>5
<1>8. CASE k # n
  <2>1. PICK j \in 1..n : j = k + 1 /\ k < n /\ j \in 0..n /\ k < n + 1 /\ k # n + 1
    <3>1. k + 1 \in 1..n /\ k < n /\ k + 1 \in 0..n /\ k < n + 1 /\ k # n + 1
      BY <1>3, <1>8
    <3> QED
      BY <3>1
  <2>2. IsRead(OnWire(s[j]), rest[j]) /\ rest[j] \in Seq(Byte)
    BY <1>3, <2>1, CourseIs DEF Place
  <2>3. IsRead(OnWire(s[j]), rest[j] \o q)'
    BY <1>2, <1>6, <2>2, SentReads
  <2>4. t[j] = s[j] /\ r[j] = rest[j] \o q
    BY <1>5, <1>9, <1>10, <2>1
  <2>5. IsRead(OnWire(t[j]), r[j])'
    BY <2>3, <2>4
  <2>6. Place(k, t, r, h)'
    BY <1>5, <1>9, <1>10, <1>6, <2>1, <2>5 DEF Place
  <2> QED
    BY <1>6, <2>6
<1> QED
  BY <1>7, <1>8

\* While a packet is read, read_packet's steps lead from place to place.
LEMMA ReadKeepsPlace ==
  ASSUME IInv, NEW k, NEW s, NEW rest, NEW heard, Place(k, s, rest, heard), k < Len(s),
         torn = "none", torn' = "none", ReadStep \/ ReadFailure
  PROVE  \E j : Place(j, s, rest, heard)'
<1>1. /\ sent = s /\ s \in Seq(Packets) /\ Course(s, rest, heard) /\ k \in 0..Len(s)
      /\ delivered = heard[k] /\ IsRead(OnWire(s[k + 1]), rest[k + 1])
  BY DEF Place
<1>2. PICK j \in 0..Len(s) : /\ j = k + 1 /\ s[j] \in Packets /\ rest[j] \in Seq(Byte)
                             /\ heard[j] = Hears(heard[k], s[j])
  <2>0. s \in Seq(Packets) /\ Course(s, rest, heard) /\ k \in 0..Len(s) /\ k < Len(s)
    BY <1>1
  <2>3. Follows(k, s, rest, heard)
    BY <2>0, CourseIs, Zenon
  <2>1. /\ k + 1 \in 0..Len(s) /\ s[k + 1] \in Packets
        /\ heard[k + 1] = Hears(heard[k], s[k + 1])
    BY <2>3, Zenon DEF Follows
  <2>2. rest[k + 1] \in Seq(Byte)
    BY <1>1, <2>1, CourseIs, Zenon
  <2> QED
    BY <2>1, <2>2, Zenon
<1>3. k # Len(s)
  BY <1>1
<1>4. CASE \/ ReadHeader \/ ReadLength \/ ReadRest \/ BadLength \/ ReadFailure
           \/ Drop /\ stage' = "drop"
  <2>1. IsRead(OnWire(s[j]), rest[j])'
    BY <1>1, <1>2, <1>4, StepReads
  <2>2. UNCHANGED <<sent, delivered>>
    BY <1>4 DEF ReadHeader, ReadLength, ReadRest, BadLength, Drop,
                ReadFailure, HeaderFails, LengthFails, RestFails, DropFails, ReadFails
  <2>3. Place(k, s, rest, heard)'
    BY <1>1, <1>2, <1>3, <2>1, <2>2 DEF Place
  <2> QED
    BY <2>3
<1>5. CASE Deliver \/ (Drop /\ stage' # "drop")
  <2>1. /\ wire' = rest[j] /\ stage' = "header" /\ total' = 0 /\ readBuf' = <<>>
        /\ delivered' = Hears(delivered, s[j])
        /\ UNCHANGED sent
    BY <1>1, <1>2, <1>5, PacketEnds
  <2>2. Place(j, s, rest, heard)'
    BY <1>1, <1>2, <2>1, PlaceBegins
  <2> QED
    BY <2>2
<1> QED
  BY <1>4, <1>5 DEF ReadStep

\* When all is read there is nothing to read.
LEMMA EndKeepsPlace ==
  ASSUME IInv, NEW k, NEW s, NEW rest, NEW heard, Place(k, s, rest, heard), k = Len(s),
         torn' = "none", ReadStep \/ ReadFailure
  PROVE  Place(k, s, rest, heard)'
<1>1. stage = "header" /\ readBuf = <<>> /\ wire = <<>> /\ Len(wire) = 0 /\ Missing(0, 1) = 1
  BY DEF Place, Missing, readBufIndex
<1>2. ~ReadHeader
  BY <1>1 DEF ReadHeader, ReadAll, Take
<1>3. HeaderFails
  BY <1>1, <1>2 DEF ReadStep, ReadFailure, ReadLength, BadLength, ReadRest, Deliver, Drop,
                    LengthFails, RestFails, DropFails
<1>4. stage' = "header" /\ UNCHANGED <<wire, readBuf, sent, delivered>>
  BY <1>1, <1>3 DEF HeaderFails, ReadFails, Nothing, CutShort, Tear, Returns
<1> QED
  BY <1>1, <1>4 DEF Place

\* A call that is refused finds the buffer empty, or tears the stream.
LEMMA RefusedKeepsPlace ==
  ASSUME IInv, NEW k, NEW s, NEW rest, NEW heard, Place(k, s, rest, heard), torn' = "none",
         ConnectRefused \/ UNCHANGED streamVars
  PROVE  Place(k, s, rest, heard)'
<1>1. UNCHANGED <<wire, readBuf, stage, len, rem_len, total, sent, delivered>>
  <2>1. CASE ConnectRefused
    <3>1. ~(Len(readBuf) > 0)
      BY <2>1 DEF ConnectRefused, Tear, readBufIndex
    <3>2. readBuf = <<>>
      BY <3>1 DEF IInv, BytesOK
    <3> QED
      BY <2>1, <3>2 DEF ConnectRefused, Flush, locals
  <2>2. CASE UNCHANGED streamVars
    BY <2>2 DEF streamVars, locals
  <2> QED
    BY <2>1, <2>2
<1>2. \A b, r : IsRead(b, r) => IsRead(b, r)'
  BY <1>1 DEF IsRead, Reading
<1> QED
  BY <1>1, <1>2 DEF Place

\* Every step keeps the place, or tears the stream.
LEMMA OrderKept == IInv /\ InOrder /\ [StreamNext]_streamVars => InOrder'
<1> SUFFICES ASSUME IInv, InOrder, [StreamNext]_streamVars, torn' = "none"
             PROVE  \E k, s, rest, heard : Place(k, s, rest, heard)'
  BY DEF InOrder
<1>1. CASE Reconnect
  BY <1>1, SessionStarts
<1>2. CASE ~Reconnect
  <2>1. torn = "none"
    BY <1>2, TornStays DEF streamVars
  <2>2. PICK k, s, rest, heard : Place(k, s, rest, heard)
    BY <2>1 DEF InOrder
  <2>3. CASE ReadStep \/ ReadFailure
    <3>1. CASE k < Len(s)
      BY <2>1, <2>2, <2>3, <3>1, ReadKeepsPlace
    <3>2. CASE ~(k < Len(s))
      <4>1. k = Len(s)
        BY <2>2, <3>2 DEF Place
      <4> QED
        BY <2>2, <2>3, <4>1, EndKeepsPlace
    <3> QED
      BY <3>1, <3>2
  <2>4. CASE BrokerSends
    BY <2>2, <2>4, BrokerKeepsPlace
  <2>5. CASE ConnectRefused \/ UNCHANGED streamVars
    BY <2>2, <2>5, RefusedKeepsPlace
  <2> QED
    BY <1>2, <2>3, <2>4, <2>5 DEF StreamNext
<1> QED
  BY <1>1, <1>2

\* Nothing is sent before the first session.
LEMMA OrderInit == StreamInit => InOrder
<1> SUFFICES ASSUME StreamInit PROVE \E k, s, rest, heard : Place(k, s, rest, heard)
  BY DEF InOrder
<1>1. PICK s \in Seq(Packets) : s = <<>> /\ Len(s) = 0
  BY CourseStarts
<1>2. PICK rest, heard : Course(s, rest, heard)
  BY <1>1, CourseStarts
<1>3. heard[0] = <<>> /\ 0 \in 0..Len(s) /\ ~(0 < Len(s))
  BY <1>1, <1>2 DEF Course
<1>4. Place(0, s, rest, heard)
  BY <1>1, <1>2, <1>3 DEF StreamInit, Place
<1> QED
  BY <1>4

\* Where the stream is in order, so is what was delivered.
LEMMA OrderTells == IInv /\ InOrder => PacketsInOrder
<1> SUFFICES ASSUME IInv, InOrder, torn = "none"
             PROVE  /\ IsPrefix(delivered, Fitting)
                    /\ wire = <<>> /\ stage = "header" /\ readBufIndex = 0 => delivered = Fitting
  BY DEF PacketsInOrder
<1>1. PICK k, s, rest, heard : Place(k, s, rest, heard)
  BY DEF InOrder
<1>2. /\ sent = s /\ s \in Seq(Packets) /\ Course(s, rest, heard) /\ k \in 0..Len(s)
      /\ delivered = heard[k]
  BY <1>1 DEF Place
<1>3. Fitting = heard[Len(s)]
  BY <1>2, CourseFits
<1>4. IsPrefix(delivered, Fitting)
  BY <1>2, <1>3, CourseGrows
<1>5. ASSUME wire = <<>>, stage = "header", readBufIndex = 0 PROVE k = Len(s)
  <2> SUFFICES ASSUME k < Len(s) PROVE FALSE
    BY <1>2
  <2>1. IsRead(OnWire(s[k + 1]), rest[k + 1]) /\ s[k + 1] \in Packets /\ rest[k + 1] \in Seq(Byte)
    BY <1>1, <1>2, CourseIs DEF Place, Follows
  <2>2. PICK b \in Seq(Byte), r \in Seq(Byte) : b = OnWire(s[k + 1]) /\ Len(b) > 0 /\ r = rest[k + 1]
    BY <2>1, PacketBytes
  <2>3. PICK n \in Nat : Reading(b, n, r)
    BY <2>1, <2>2 DEF IsRead
  <2>4. readBuf \o wire = b \o r
    BY <1>5, <2>3 DEF Reading, IInv, LengthKept
  <2>5. Len(readBuf \o wire) = 0
    BY <1>5 DEF readBufIndex, IInv, BytesOK
  <2>6. Len(b \o r) = Len(b) + Len(r) /\ Len(b) \in Nat /\ Len(r) \in Nat
    OBVIOUS
  <2>7. Len(b) + Len(r) = 0
    BY <2>4, <2>5, <2>6, Zenon
  <2>8. PICK x \in Nat, y \in Nat : x = Len(b) /\ y = Len(r)
    BY <2>6
  <2>9. x > 0 /\ x + y = 0
    BY <2>2, <2>7, <2>8, Zenon
  <2> QED
    BY <2>9
<1> QED
  BY <1>2, <1>3, <1>4, <1>5

\* For every size of the buffer, whatever the broker sends, however its bytes arrive
\* and wherever calls return and go on: as long as the stream is not torn, the client
\* has understood the packets that fit, each once, in order and unaltered, and when
\* all is read none is missing.
THEOREM PacketsAreRead == StreamSpec => []PacketsInOrder
<1>1. IInv /\ [StreamNext]_streamVars => IInv'
  BY HeaderKeeps, LengthKeeps, RestKeeps, DropKeeps, FailureKeeps, OtherKeeps
     DEF StreamNext, ReadStep
<1> QED
  BY StreamStarts, OrderInit, OrderKept, OrderTells, <1>1, PTL DEF StreamSpec

=============================================================================
