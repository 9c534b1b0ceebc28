-------------------------- MODULE MqttPacketsProofs --------------------------
(***************************************************************************)
(* What the operators on packets do, for every packet: a length, a number, *)
(* a string and a header byte are read as they were written, a packet ends *)
(* where its length says, a PUBLISH is read back, the flags and the        *)
(* strings of a CONNECT are where a broker looks for them, and the loop of *)
(* the topic match ends.                                                   *)
(*                                                                         *)
(* The recursive functions are shown to exist first: a set of numbers that *)
(* holds each number whose predecessors it holds, holds all of them.       *)
(***************************************************************************)
EXTENDS MqttPackets, SequenceTheorems, WellFoundedInduction, TLAPS

-----------------------------------------------------------------------------
(* Recursion on the numbers.                                               *)

\* A set of numbers has a least one.
LEMMA Least ==
  ASSUME NEW S \in SUBSET Nat, S # {}
  PROVE  \E m \in S : \A j \in S : m <= j
<1> DEFINE R == OpToRel(<, Nat)
<1>1. IsWellFoundedOn(R, Nat)
  BY NatLessThanWellFounded DEF OpToRel
<1>2. PICK m \in S : \A j \in S : ~(<<j, m>> \in R)
  BY <1>1, WFMin
<1>3. ASSUME NEW j \in S PROVE m <= j
  <2>1. j \in Nat /\ m \in Nat /\ <<j, m>> \in Nat \X Nat /\ <<j, m>>[1] = j /\ <<j, m>>[2] = m
    OBVIOUS
  <2>2. ~(j < m)
    BY <1>2, <2>1 DEF OpToRel
  <2> QED
    BY <2>1, <2>2
<1> QED
  BY <1>3

\* What holds of a number when it holds of all smaller ones holds of all.
LEMMA Induction ==
  ASSUME NEW S, \A n \in Nat : (\A m \in Nat : m < n => m \in S) => n \in S
  PROVE  Nat \subseteq S
<1> SUFFICES ASSUME Nat \ S # {} PROVE FALSE
  OBVIOUS
<1>1. PICK n \in Nat \ S : \A j \in Nat \ S : n <= j
  <2>1. Nat \ S \in SUBSET Nat
    OBVIOUS
  <2> QED
    BY <2>1, Least
<1>2. \A m \in Nat : m < n => m \in S
  BY <1>1
<1> QED
  BY <1>1, <1>2

\* The values of a function at the numbers of D follow from those in B.
RecursionFrom(D, V, B, e, down, step) ==
  /\ D \in SUBSET Nat
  /\ e \in [D -> V] /\ down \in [D -> D] /\ step \in [D \X V -> V]
  /\ \A n \in D : n \notin B => down[n] < n

Recursive(f, D, V, B, e, down, step) ==
  /\ f \in [D -> V]
  /\ \A n \in D : f[n] = IF n \in B THEN e[n] ELSE step[<<n, f[down[n]]>>]

\* A function may be defined by its values at smaller numbers: from D, it goes down to
\* the numbers in B.
LEMMA Recursion ==
  ASSUME NEW D, NEW V, NEW B, NEW e, NEW down, NEW step, RecursionFrom(D, V, B, e, down, step)
  PROVE  \E f : Recursive(f, D, V, B, e, down, step)
<1>a. /\ D \in SUBSET Nat
      /\ e \in [D -> V] /\ down \in [D -> D] /\ step \in [D \X V -> V]
      /\ \A n \in D : n \notin B => down[n] < n
  BY DEF RecursionFrom
<1> USE <1>a
<1> DEFINE Upto(n) == {i \in D : i <= n}
           Sol(n)  == {g \in [D -> V] : \A i \in Upto(n) : g[i] = IF i \in B THEN e[i] ELSE step[<<i, g[down[i]]>>]}
           val(n)  == (CHOOSE g \in Sol(n) : TRUE)[n]
<1>1. ASSUME NEW m \in Nat, NEW n \in Nat, NEW g \in Sol(m), NEW h \in Sol(n)
      PROVE  \A i \in D : i <= m /\ i <= n => g[i] = h[i]
  <2> DEFINE S == {i \in D : i <= m /\ i <= n /\ g[i] # h[i]}
  <2> SUFFICES ASSUME S # {} PROVE FALSE
    OBVIOUS
  <2>1. PICK i \in S : \A j \in S : i <= j
    <3>1. S \in SUBSET Nat
      OBVIOUS
    <3> HIDE DEF S
    <3> QED
      BY <3>1, Least
  <2>2. i \in D /\ i \in Nat /\ i <= m /\ i <= n /\ g[i] # h[i] /\ i \in Upto(m) /\ i \in Upto(n)
    BY <2>1
  <2>3. /\ g[i] = IF i \in B THEN e[i] ELSE step[<<i, g[down[i]]>>]
        /\ h[i] = IF i \in B THEN e[i] ELSE step[<<i, h[down[i]]>>]
    BY <2>2
  <2>4. i \notin B
    BY <2>2, <2>3
  <2>5. down[i] \in D /\ down[i] < i /\ down[i] \in Nat
    BY <2>2, <2>4
  <2>6. down[i] \notin S
    BY <2>1, <2>2, <2>5
  <2>7. g[down[i]] = h[down[i]]
    BY <2>2, <2>5, <2>6
  <2> QED
    BY <2>2, <2>3, <2>7
<1>2. \A n \in D : Sol(n) # {}
  <2> DEFINE S == {n \in Nat : n \in D => Sol(n) # {}}
  <2>1. ASSUME NEW n \in Nat, \A m \in Nat : m < n => m \in S
        PROVE  n \in S
    <3> SUFFICES ASSUME n \in D PROVE Sol(n) # {}
      OBVIOUS
    <3>1. \A m \in D : m < n => Sol(m) # {}
      BY <2>1
    <3> DEFINE w == CHOOSE v \in V : TRUE
               f == [i \in D |-> IF i \in B THEN e[i] ELSE IF i <= n THEN step[<<i, val(down[i])>>] ELSE e[i]]
    <3>3. ASSUME NEW i \in D, i <= n, i \notin B
          PROVE  down[i] \in D /\ down[i] \in Nat /\ down[i] < i /\ down[i] < n
      <4>1. down[i] \in D /\ down[i] < i
        BY <3>3
      <4>2. i \in Nat /\ down[i] \in Nat
        BY <4>1
      <4> QED
        BY <3>3, <4>1, <4>2
    <3>2. ASSUME NEW d \in D, d < n
          PROVE  /\ (CHOOSE g \in Sol(d) : TRUE) \in Sol(d)
                 /\ val(d) \in V
                 /\ val(d) = IF d \in B THEN e[d] ELSE step[<<d, val(down[d])>>]
      <4>1. PICK g \in Sol(d) : g = CHOOSE h \in Sol(d) : TRUE
        BY <3>1, <3>2
      <4>2. val(d) = g[d] /\ g \in [D -> V] /\ d \in Upto(d)
        BY <4>1
      <4>3. val(d) \in V /\ val(d) = IF d \in B THEN e[d] ELSE step[<<d, g[down[d]]>>]
        BY <4>2
      <4>4. CASE d \notin B
        <5>1. down[d] \in D /\ down[d] < d /\ down[d] < n /\ down[d] \in Nat /\ d \in Nat
          BY <3>2, <3>3, <4>4
        <5>2. PICK h \in Sol(down[d]) : h = CHOOSE x \in Sol(down[d]) : TRUE
          BY <3>1, <5>1
        <5>3. val(down[d]) = h[down[d]]
          BY <5>2
        <5>4. h[down[d]] = g[down[d]]
          <6> HIDE DEF Sol
          <6> QED
            BY <1>1, <5>1, <5>2
        <5> QED
          BY <4>1, <4>3, <5>3, <5>4
      <4> QED
        BY <4>1, <4>3, <4>4
    <3> HIDE DEF val, Sol
    <3>4. f \in [D -> V]
      <4>1. ASSUME NEW i \in D PROVE (IF i \in B THEN e[i] ELSE IF i <= n THEN step[<<i, val(down[i])>>] ELSE e[i]) \in V
        BY <3>2, <3>3
      <4> QED
        BY <4>1
    <3>5. ASSUME NEW i \in D, i <= n
          PROVE  f[i] = IF i \in B THEN e[i] ELSE step[<<i, f[down[i]]>>]
      <4>1. CASE i \notin B
        <5>1. down[i] \in D /\ down[i] < n /\ down[i] \in Nat
          BY <3>3, <3>5, <4>1
        <5>2. val(down[i]) = IF down[i] \in B THEN e[down[i]] ELSE step[<<down[i], val(down[down[i]])>>]
          BY <3>2, <5>1
        <5>3. f[down[i]] = val(down[i])
          BY <5>1, <5>2
        <5> QED
          BY <3>5, <4>1, <5>3
      <4> QED
        BY <4>1
    <3>6. f \in Sol(n)
      BY <3>4, <3>5 DEF Sol
    <3> QED
      BY <3>6
  <2> HIDE DEF S
  <2>2. Nat \subseteq S
    BY <2>1, Induction
  <2> QED
    BY <2>2 DEF S
<1> DEFINE f == [n \in D |-> val(n)]
<1>3. ASSUME NEW n \in D
      PROVE  val(n) \in V /\ val(n) = IF n \in B THEN e[n] ELSE step[<<n, val(down[n])>>]
  <2>1. PICK g \in Sol(n) : g = CHOOSE h \in Sol(n) : TRUE
    BY <1>2
  <2>2. val(n) = g[n] /\ g \in [D -> V] /\ n \in Upto(n)
    BY <2>1
  <2>3. val(n) \in V /\ val(n) = IF n \in B THEN e[n] ELSE step[<<n, g[down[n]]>>]
    BY <2>2
  <2>4. CASE n \notin B
    <3>1. down[n] \in D /\ down[n] < n /\ down[n] \in Nat /\ n \in Nat
      BY <2>4
    <3>2. PICK h \in Sol(down[n]) : h = CHOOSE x \in Sol(down[n]) : TRUE
      BY <1>2, <3>1
    <3>3. val(down[n]) = h[down[n]]
      BY <3>2
    <3>4. h[down[n]] = g[down[n]]
      <4> HIDE DEF Sol
      <4> QED
        BY <1>1, <3>1, <3>2
    <3> QED
      BY <2>3, <3>3, <3>4
  <2> QED
    BY <2>3, <2>4
<1> HIDE DEF val
<1>4. f \in [D -> V]
  BY <1>3
<1>5. \A n \in D : f[n] = IF n \in B THEN e[n] ELSE step[<<n, f[down[n]]>>]
  BY <1>3
<1> QED
  BY <1>4, <1>5 DEF Recursive

-----------------------------------------------------------------------------
(* What a buffer holds.                                                    *)

\* The bytes of s are in the buffer from a place on.
Holds(buf, at, s) ==
  /\ at + Len(s) <= Len(buf) + 1
  /\ \A i \in 1..Len(s) : buf[at + i - 1] = s[i]

Places == Nat \ {0}

\* A byte is a number up to 255.
LEMMA ByteIs == \A n : n \in Byte <=> n \in Nat /\ n <= 255
  BY DEF Byte

\* A buffer holds itself.
LEMMA HoldsAll == ASSUME NEW buf \in Seq(Byte) PROVE Holds(buf, 1, buf)
<1>1. \A i \in 1..Len(buf) : 1 + i - 1 = i
  OBVIOUS
<1> QED
  BY <1>1 DEF Holds

\* What is written one after the other is held one after the other.
LEMMA HoldsParts ==
  ASSUME NEW buf \in Seq(Byte), NEW at \in Places, NEW s \in Seq(Byte), NEW t \in Seq(Byte),
         Holds(buf, at, s \o t)
  PROVE  /\ Holds(buf, at, s) /\ Holds(buf, at + Len(s), t)
         /\ at + Len(s) \in Places /\ at + Len(s) + Len(t) <= Len(buf) + 1
<1>1. PICK m \in Nat, n \in Nat, b \in Nat : m = Len(s) /\ n = Len(t) /\ b = Len(buf)
  OBVIOUS
<1>2. /\ Len(s \o t) = m + n
      /\ \A i \in 1..(m + n) : (s \o t)[i] = IF i <= m THEN s[i] ELSE t[i - m]
  BY <1>1, ConcatProperties
<1>3. at + (m + n) <= b + 1 /\ \A i \in 1..(m + n) : buf[at + i - 1] = (s \o t)[i]
  BY <1>1, <1>2 DEF Holds
<1>4. ASSUME NEW i \in 1..m PROVE buf[at + i - 1] = s[i]
  <2>1. i \in 1..(m + n) /\ i <= m
    OBVIOUS
  <2> QED
    BY <1>2, <1>3, <2>1
<1>5. ASSUME NEW i \in 1..n PROVE buf[(at + m) + i - 1] = t[i]
  <2>1. m + i \in 1..(m + n) /\ ~(m + i <= m) /\ (m + i) - m = i /\ at + (m + i) - 1 = (at + m) + i - 1
    BY DEF Places
  <2> QED
    BY <1>2, <1>3, <2>1
<1>6. at + m <= b + 1 /\ (at + m) + n <= b + 1 /\ at + m \in Places
  BY <1>3 DEF Places
<1> QED
  BY <1>1, <1>4, <1>5, <1>6 DEF Holds

\* A buffer that holds a sequence has it between its first and its last place.
LEMMA HoldsSub ==
  ASSUME NEW buf \in Seq(Byte), NEW at \in Places, NEW s \in Seq(Byte), Holds(buf, at, s)
  PROVE  SubSeq(buf, at, at + Len(s) - 1) = s
<1>1. PICK m \in Nat, b \in Nat : m = Len(s) /\ b = Len(buf)
  OBVIOUS
<1>2. at + m <= b + 1 /\ \A i \in 1..m : buf[at + i - 1] = s[i]
  BY <1>1 DEF Holds
<1>3. PICK z \in Int : z = at + m - 1
  BY DEF Places
<1>4. \A i \in at..z : buf[i] \in Byte
  <2>1. \A i \in at..z : i \in 1..Len(buf)
    BY <1>1, <1>2, <1>3 DEF Places
  <2> QED
    BY <2>1, ElementOfSeq
<1>5. /\ SubSeq(buf, at, z) \in Seq(Byte)
      /\ Len(SubSeq(buf, at, z)) = IF at <= z THEN z - at + 1 ELSE 0
      /\ \A i \in 1..(z - at + 1) : SubSeq(buf, at, z)[i] = buf[at + i - 1]
  <2>1. at \in Int
    BY DEF Places
  <2> QED
    BY SMTT(30), <1>3, <1>4, <2>1, SubSeqProperties
<1>6. z - at + 1 = m /\ (at <= z <=> 1 <= m)
  BY <1>1, <1>3 DEF Places
<1>7. Len(SubSeq(buf, at, z)) = m /\ \A i \in 1..m : SubSeq(buf, at, z)[i] = s[i]
  BY <1>1, <1>2, <1>5, <1>6
<1> QED
  BY <1>1, <1>3, <1>5, <1>7, SeqEqual

\* A number of 16 bits takes two bytes.
LEMMA U16Typed == ASSUME NEW n \in Word PROVE WriteU16(n) \in Seq(Byte) /\ Len(WriteU16(n)) = 2
<1>1. n \div 256 \in Byte /\ n % 256 \in Byte
  <2>1. n \div 256 \in Nat /\ n \div 256 <= 255 /\ n % 256 \in Nat /\ n % 256 <= 255
    BY DEF Word
  <2> QED
    BY <2>1, ByteIs
<1> QED
  BY <1>1 DEF WriteU16

\* What was written as a number of 16 bits is read as that number.
LEMMA U16Read ==
  ASSUME NEW buf \in Seq(Byte), NEW at \in Places, NEW n \in Word, Holds(buf, at, WriteU16(n))
  PROVE  ReadU16(buf, at) = n
<1>1. WriteU16(n)[1] = n \div 256 /\ WriteU16(n)[2] = n % 256 /\ Len(WriteU16(n)) = 2
  BY DEF WriteU16, Word
<1>2. buf[at + 1 - 1] = n \div 256 /\ buf[at + 2 - 1] = n % 256
  <2>1. \A i \in 1..2 : buf[at + i - 1] = WriteU16(n)[i]
    BY <1>1, Zenon DEF Holds
  <2>2. 1 \in 1..2 /\ 2 \in 1..2
    OBVIOUS
  <2> QED
    BY <1>1, <2>1, <2>2
<1>3. at + 1 - 1 = at /\ at + 2 - 1 = at + 1
  BY DEF Places
<1>4. 256 * (n \div 256) + (n % 256) = n
  BY DEF Word
<1> QED
  BY <1>2, <1>3, <1>4 DEF ReadU16

\* A string takes two bytes more than it has.
LEMMA StringTyped ==
  ASSUME NEW s \in String PROVE WriteString(s) \in Seq(Byte) /\ Len(WriteString(s)) = 2 + Len(s)
<1>1. s \in Seq(Byte) /\ Len(s) \in Word
  BY DEF String
<1>2. PICK u \in Seq(Byte) : u = WriteU16(Len(s)) /\ Len(u) = 2
  BY <1>1, U16Typed
<1>3. u \o s \in Seq(Byte) /\ Len(u \o s) = Len(u) + Len(s)
  BY <1>1, ConcatProperties
<1> QED
  BY <1>2, <1>3 DEF WriteString

\* What was written as a string is read as that string.
LEMMA StringRead ==
  ASSUME NEW buf \in Seq(Byte), NEW at \in Places, NEW s \in String, Holds(buf, at, WriteString(s))
  PROVE  /\ ReadU16(buf, at) = Len(s)
         /\ at + 2 \in Places /\ Holds(buf, at + 2, s)
         /\ SubSeq(buf, at + 2, at + 1 + Len(s)) = s
<1>1. s \in Seq(Byte) /\ Len(s) \in Word
  BY DEF String
<1>2. WriteU16(Len(s)) \in Seq(Byte) /\ Len(WriteU16(Len(s))) = 2
  BY <1>1, U16Typed
<1>3. Holds(buf, at, WriteU16(Len(s))) /\ Holds(buf, at + 2, s) /\ at + 2 \in Places
  BY <1>1, <1>2, HoldsParts DEF WriteString
<1>4. SubSeq(buf, at + 2, (at + 2) + Len(s) - 1) = s
  BY <1>1, <1>3, HoldsSub
<1>5. (at + 2) + Len(s) - 1 = at + 1 + Len(s)
  BY <1>1 DEF Places
<1> QED
  BY <1>1, <1>3, <1>4, <1>5, U16Read

-----------------------------------------------------------------------------
(* The encoded length.                                                     *)

\* The recursion over the digits of base 128 ends.
LEMMA LengthBytesIs ==
  /\ LengthBytes \in [Nat -> Seq(Byte)]
  /\ \A n \in Nat : LengthBytes[n] = IF n < 128 THEN <<n>>
                                     ELSE <<(n % 128) + 128>> \o LengthBytes[n \div 128]
<1> DEFINE B == 0..127
           e == [n \in Nat |-> IF n < 128 THEN <<n>> ELSE <<>>]
           down == [n \in Nat |-> n \div 128]
           step == [p \in Nat \X Seq(Byte) |-> <<(p[1] % 128) + 128>> \o p[2]]
<1>1. e \in [Nat -> Seq(Byte)]
  <2>1. ASSUME NEW n \in Nat PROVE (IF n < 128 THEN <<n>> ELSE <<>>) \in Seq(Byte)
    BY ByteIs
  <2> QED
    BY <2>1
<1>2. down \in [Nat -> Nat] /\ \A n \in Nat : n \notin B => down[n] < n
  OBVIOUS
<1>3. step \in [Nat \X Seq(Byte) -> Seq(Byte)]
  <2>1. ASSUME NEW n \in Nat, NEW s \in Seq(Byte) PROVE <<(n % 128) + 128>> \o s \in Seq(Byte)
    <3>1. (n % 128) + 128 \in Byte
      BY ByteIs
    <3> QED
      BY <3>1
  <2> QED
    BY <2>1
<1>4. PICK f \in [Nat -> Seq(Byte)] :
        \A n \in Nat : f[n] = IF n \in B THEN e[n] ELSE step[<<n, f[down[n]]>>]
  <2> HIDE DEF B, e, down, step
  <2>1. RecursionFrom(Nat, Seq(Byte), B, e, down, step)
    BY <1>1, <1>2, <1>3 DEF RecursionFrom
  <2>2. PICK f : Recursive(f, Nat, Seq(Byte), B, e, down, step)
    BY <2>1, Recursion
  <2> QED
    BY <2>2 DEF Recursive
<1>5. \A n \in Nat : f[n] = IF n < 128 THEN <<n>> ELSE <<(n % 128) + 128>> \o f[n \div 128]
  <2> SUFFICES ASSUME NEW n \in Nat
               PROVE  f[n] = IF n < 128 THEN <<n>> ELSE <<(n % 128) + 128>> \o f[n \div 128]
    OBVIOUS
  <2>1. n \div 128 \in Nat /\ f[n \div 128] \in Seq(Byte) /\ (n \in B <=> n < 128)
    OBVIOUS
  <2> QED
    BY <1>4, <2>1, ZenonT(30)
<1>6. f = [n \in Nat |-> IF n < 128 THEN <<n>> ELSE <<(n % 128) + 128>> \o f[n \div 128]]
  BY <1>5
<1>7. LengthBytes = [n \in Nat |-> IF n < 128 THEN <<n>> ELSE <<(n % 128) + 128>> \o LengthBytes[n \div 128]]
  BY <1>6, ZenonT(30) DEF LengthBytes
<1> QED
  <2> DEFINE S == {n \in Nat : LengthBytes[n] \in Seq(Byte)}
  <2>1. ASSUME NEW n \in Nat, \A m \in Nat : m < n => m \in S PROVE n \in S
    <3>1. LengthBytes[n] = IF n < 128 THEN <<n>> ELSE <<(n % 128) + 128>> \o LengthBytes[n \div 128]
      BY <1>7
    <3>2. CASE n < 128
      <4>2. n \in Byte
        <5>1. n \in Nat /\ n <= 255
          BY <3>2
        <5> QED
          BY <5>1, ByteIs
      <4>1. <<n>> \in Seq(Byte)
        BY <4>2
      <4> QED
        BY <3>1, <3>2, <4>1
    <3>3. CASE ~(n < 128)
      <4>1. n \div 128 \in Nat /\ n \div 128 < n /\ (n % 128) + 128 \in Nat /\ (n % 128) + 128 <= 255
        BY <3>3
      <4>3. (n % 128) + 128 \in Byte
        BY <4>1, ByteIs
      <4>2. LengthBytes[n \div 128] \in Seq(Byte)
        BY <2>1, <4>1
      <4>4. <<(n % 128) + 128>> \o LengthBytes[n \div 128] \in Seq(Byte)
        BY <4>2, <4>3
      <4> QED
        BY <3>1, <3>3, <4>4
    <3> QED
      BY <3>2, <3>3
  <2> HIDE DEF S
  <2>2. Nat \subseteq S
    BY <2>1, Induction
  <2>3. \A n \in Nat : LengthBytes[n] \in Seq(Byte)
    BY <2>2 DEF S
  <2>4. DOMAIN LengthBytes = Nat /\ LengthBytes = [n \in Nat |-> LengthBytes[n]]
    BY <1>7
  <2> QED
    BY <1>7, <2>3, <2>4

-----------------------------------------------------------------------------
(* Digits.                                                                 *)

\* How many bytes a length takes.
LengthSize(n) == IF n < 128 THEN 1 ELSE IF n < 16384 THEN 2 ELSE IF n < 2097152 THEN 3 ELSE 4

\* The digits of a length, each but the last marked.
Digits(w, n) ==
  /\ w \in Seq(Byte) /\ Len(w) = LengthSize(n)
  /\ \A k \in 1..4 : k < Len(w) => w[k] >= 128
  /\ w[Len(w)] < 128
  /\ n = (w[1] % 128) + (IF 2 <= Len(w) THEN (w[2] % 128) * 128 ELSE 0)
           + (IF 3 <= Len(w) THEN (w[3] % 128) * 16384 ELSE 0)
           + (IF 4 <= Len(w) THEN (w[4] % 128) * 2097152 ELSE 0)

\* A digit of base 128 comes off.
LEMMA DigitIs ==
  ASSUME NEW n \in Nat
  PROVE  /\ n \div 128 \in Nat /\ n % 128 \in Nat /\ n % 128 < 128
         /\ n = 128 * (n \div 128) + (n % 128)
         /\ (n % 128) + 128 \in Byte
         /\ ((n % 128) + 128) % 128 = n % 128
         /\ (n % 128) % 128 = n % 128
<1>1. (n % 128) + 128 \in Nat /\ (n % 128) + 128 <= 255
  BY SMT
<1> QED
  BY SMT, <1>1, ByteIs

\* Sequences of one to four bytes.
LEMMA FewBytes ==
  /\ \A a \in Byte : <<a>> \in Seq(Byte) /\ Len(<<a>>) = 1 /\ <<a>>[1] = a
  /\ \A a, b \in Byte :
       LET w == <<a>> \o <<b>>
       IN w \in Seq(Byte) /\ Len(w) = 2 /\ w[1] = a /\ w[2] = b
  /\ \A a, b, c \in Byte :
       LET w == <<a>> \o (<<b>> \o <<c>>)
       IN w \in Seq(Byte) /\ Len(w) = 3 /\ w[1] = a /\ w[2] = b /\ w[3] = c
  /\ \A a, b, c, d \in Byte :
       LET w == <<a>> \o (<<b>> \o (<<c>> \o <<d>>))
       IN w \in Seq(Byte) /\ Len(w) = 4 /\ w[1] = a /\ w[2] = b /\ w[3] = c /\ w[4] = d
  OBVIOUS

\* The bytes of a length are its digits.
LEMMA WriteLenDigits ==
  ASSUME NEW n \in Nat, n < MaxLength
  PROVE  Digits(WriteLen(n), n)
<1>0. PICK x \in Nat, y \in Nat, z \in Nat : x = n \div 128 /\ y = x \div 128 /\ z = y \div 128
  BY SMT, DigitIs
<1>1. PICK a \in Nat, b \in Nat, c \in Nat : a = n % 128 /\ b = x % 128 /\ c = y % 128
  BY SMT, <1>0, DigitIs
<1>2. /\ a < 128 /\ b < 128 /\ c < 128
      /\ n = 128 * x + a /\ x = 128 * y + b /\ y = 128 * z + c
      /\ a + 128 \in Byte /\ b + 128 \in Byte /\ c + 128 \in Byte
      /\ (a + 128) % 128 = a /\ (b + 128) % 128 = b /\ (c + 128) % 128 = c
  BY SMT, <1>0, <1>1, DigitIs
<1>3. /\ WriteLen(n) = IF n < 128 THEN <<n>> ELSE <<a + 128>> \o LengthBytes[x]
      /\ LengthBytes[x] = IF x < 128 THEN <<x>> ELSE <<b + 128>> \o LengthBytes[y]
      /\ LengthBytes[y] = IF y < 128 THEN <<y>> ELSE <<c + 128>> \o LengthBytes[z]
      /\ LengthBytes[z] = IF z < 128 THEN <<z>> ELSE <<(z % 128) + 128>> \o LengthBytes[z \div 128]
  <2>1. WriteLen(n) = LengthBytes[n]
    BY DEF WriteLen
  <2>2. /\ LengthBytes[n] = IF n < 128 THEN <<n>> ELSE <<(n % 128) + 128>> \o LengthBytes[n \div 128]
        /\ LengthBytes[x] = IF x < 128 THEN <<x>> ELSE <<(x % 128) + 128>> \o LengthBytes[x \div 128]
        /\ LengthBytes[y] = IF y < 128 THEN <<y>> ELSE <<(y % 128) + 128>> \o LengthBytes[y \div 128]
        /\ LengthBytes[z] = IF z < 128 THEN <<z>> ELSE <<(z % 128) + 128>> \o LengthBytes[z \div 128]
    BY LengthBytesIs, ZenonT(30)
  <2> QED
    BY <1>0, <1>1, <2>1, <2>2
<1>4. \A k \in Nat : k < 128 => k \in Byte /\ k % 128 = k
  BY SMT, ByteIs
<1>5. CASE n < 128
  <2>1. WriteLen(n) = <<n>> /\ n \in Byte /\ n % 128 = n
    BY SMT, <1>3, <1>4, <1>5
  <2>2. PICK w : w = WriteLen(n) /\ w \in Seq(Byte) /\ Len(w) = 1 /\ w[1] = n
    BY <2>1, FewBytes, Zenon
  <2>3. LengthSize(n) = 1
    BY SMT, <1>5 DEF LengthSize
  <2>4. Digits(w, n)
    BY SMT, <1>5, <2>1, <2>2, <2>3 DEF Digits
  <2> QED
    BY SMT, <2>1, <2>2, <2>4
<1>6. CASE 128 <= n /\ n < 16384
  <2>1. x < 128 /\ ~(n < 128)
    BY SMT, <1>2, <1>6
  <2>2. WriteLen(n) = <<a + 128>> \o <<x>> /\ x \in Byte /\ x % 128 = x
    BY SMT, <1>3, <1>4, <2>1
  <2>3. PICK w : w = WriteLen(n)
    OBVIOUS
  <2>6. w \in Seq(Byte) /\ Len(w) = 2 /\ w[1] = a + 128 /\ w[2] = x
    BY SMT, <1>2, <2>2, <2>3, FewBytes
  <2>4. LengthSize(n) = 2
    BY SMT, <1>6 DEF LengthSize
  <2>5. Digits(w, n)
    BY SMT, <1>2, <2>1, <2>2, <2>4, <2>6 DEF Digits
  <2> QED
    BY SMT, <2>3, <2>5
<1>7. CASE 16384 <= n /\ n < 2097152
  <2>1. y < 128 /\ ~(x < 128) /\ ~(n < 128)
    BY SMT, <1>2, <1>7
  <2>2. WriteLen(n) = <<a + 128>> \o (<<b + 128>> \o <<y>>) /\ y \in Byte /\ y % 128 = y
    BY SMT, <1>3, <1>4, <2>1
  <2>3. PICK w : w = WriteLen(n)
    OBVIOUS
  <2>6. w \in Seq(Byte) /\ Len(w) = 3 /\ w[1] = a + 128 /\ w[2] = b + 128 /\ w[3] = y
    BY SMT, <1>2, <2>2, <2>3, FewBytes
  <2>4. LengthSize(n) = 3
    BY SMT, <1>7 DEF LengthSize
  <2>5. Digits(w, n)
    BY SMT, <1>2, <2>1, <2>2, <2>4, <2>6 DEF Digits
  <2> QED
    BY SMT, <2>3, <2>5
<1>8. CASE 2097152 <= n
  <2>1. z < 128 /\ ~(y < 128) /\ ~(x < 128) /\ ~(n < 128)
    BY SMT, <1>2, <1>8 DEF MaxLength
  <2>2. WriteLen(n) = <<a + 128>> \o (<<b + 128>> \o (<<c + 128>> \o <<z>>)) /\ z \in Byte /\ z % 128 = z
    BY SMT, <1>3, <1>4, <2>1
  <2>3. PICK w : w = WriteLen(n)
    OBVIOUS
  <2>6. w \in Seq(Byte) /\ Len(w) = 4 /\ w[1] = a + 128 /\ w[2] = b + 128 /\ w[3] = c + 128 /\ w[4] = z
    BY SMT, <1>2, <2>2, <2>3, FewBytes
  <2>4. LengthSize(n) = 4
    BY SMT, <1>8 DEF LengthSize
  <2>5. Digits(w, n)
    BY SMT, <1>2, <2>1, <2>2, <2>4, <2>6 DEF Digits
  <2> QED
    BY SMT, <2>3, <2>5
<1> QED
  BY SMT, <1>5, <1>6, <1>7, <1>8

\* What was encoded as a length is decoded as that length, and nothing behind it is
\* read.
THEOREM LengthIsRead ==
  ASSUME NEW buf \in Seq(Byte), NEW n \in Nat, n < MaxLength, Holds(buf, 1, WriteLen(n))
  PROVE  DecodeLen(buf) = [len |-> n, used |-> LengthSize(n)]
<1>1. PICK w : w = WriteLen(n)
  BY SMT
<1>2. Digits(w, n)
  BY SMT, <1>1, WriteLenDigits
<1>3. PICK l \in 1..4 : l = LengthSize(n)
  BY SMT DEF LengthSize
<1>4. PICK size \in Nat : size = Len(buf)
  BY SMT
<1>5. /\ w \in Seq(Byte) /\ Len(w) = l
      /\ \A k \in 1..4 : k < l => w[k] >= 128
      /\ w[l] < 128
      /\ n = (w[1] % 128) + (IF 2 <= l THEN (w[2] % 128) * 128 ELSE 0)
               + (IF 3 <= l THEN (w[3] % 128) * 16384 ELSE 0)
               + (IF 4 <= l THEN (w[4] % 128) * 2097152 ELSE 0)
  BY SMT, <1>2, <1>3 DEF Digits
<1>6. l <= size /\ \A k \in 1..l : buf[k] = w[k]
  <2>1. 1 + l <= size + 1 /\ \A k \in 1..l : buf[1 + k - 1] = w[k]
    <3>1. Holds(buf, 1, w) /\ Len(w) = l
      <4>1. Holds(buf, 1, w)
        BY SMT, <1>1
      <4>2. Len(w) = l
        BY SMT, <1>5
      <4> QED
        BY SMT, <4>1, <4>2
    <3>2. 1 + Len(w) <= Len(buf) + 1 /\ \A k \in 1..Len(w) : buf[1 + k - 1] = w[k]
      BY SMT, <3>1 DEF Holds
    <3> QED
      BY SMT, <1>4, <3>1, <3>2
  <2>2. \A k \in 1..l : 1 + k - 1 = k
    BY SMT
  <2> QED
    BY SMT, <2>1, <2>2
<1> DEFINE ends == {k \in 1..4 : k <= Len(buf) /\ buf[k] < 128}
           part(k) == IF k <= Min(ends) THEN (buf[k] % 128) * Multiplier[k] ELSE 0
<1>7. l \in ends /\ \A k \in ends : l <= k
  <2>1. l \in ends
    BY SMT, <1>4, <1>5, <1>6
  <2>2. ASSUME NEW k \in 1..4, k <= size, buf[k] < 128, k < l PROVE FALSE
    <3>1. k \in 1..l /\ w[k] >= 128 /\ buf[k] = w[k] /\ w[k] \in Byte
      BY SMT, <1>5, <1>6, <2>2, ElementOfSeq
    <3>2. w[k] \in Nat
      BY SMT, <3>1, ByteIs
    <3> QED
      BY SMT, <2>2, <3>1, <3>2
  <2> QED
    BY SMT, <1>4, <2>1, <2>2
<1>8. Min(ends) = l
  <2>1. PICK m : m = Min(ends)
    <3> HIDE DEF ends
    <3> QED
      BY Zenon
  <2>2. m \in ends /\ \A k \in ends : m <= k
    BY SMT, <1>7, <2>1 DEF Min
  <2>3. m \in 1..4 /\ m <= l /\ l <= m
    BY SMT, <1>7, <2>2
  <2> QED
    BY SMT, <2>1, <2>3
<1>9. DecodeLen(buf) = [len |-> part(1) + part(2) + part(3) + part(4), used |-> Min(ends)]
  BY SMT, <1>7 DEF DecodeLen
<1>10. /\ part(1) = w[1] % 128
       /\ part(2) = IF 2 <= l THEN (w[2] % 128) * 128 ELSE 0
       /\ part(3) = IF 3 <= l THEN (w[3] % 128) * 16384 ELSE 0
       /\ part(4) = IF 4 <= l THEN (w[4] % 128) * 2097152 ELSE 0
  <2>0. Multiplier[1] = 1 /\ Multiplier[2] = 128 /\ Multiplier[3] = 16384 /\ Multiplier[4] = 2097152
    BY SMT DEF Multiplier
  <2>1. ASSUME NEW k \in 1..4
        PROVE  part(k) = IF k <= l THEN (w[k] % 128) * Multiplier[k] ELSE 0
    BY SMT, <1>6, <1>8
  <2>2. w[1] \in Nat
    <3>1. w[1] \in Byte
      BY SMT, <1>5, ElementOfSeq
    <3> QED
      BY SMT, <3>1, ByteIs
  <2> HIDE DEF part
  <2>3. part(1) = (w[1] % 128) * 1
    BY SMT, <2>0, <2>1
  <2>4. /\ part(2) = IF 2 <= l THEN (w[2] % 128) * 128 ELSE 0
        /\ part(3) = IF 3 <= l THEN (w[3] % 128) * 16384 ELSE 0
        /\ part(4) = IF 4 <= l THEN (w[4] % 128) * 2097152 ELSE 0
    BY SMT, <2>0, <2>1
  <2>5. w[1] % 128 \in Nat
    BY SMT, <2>2
  <2> QED
    BY SMT, <2>3, <2>4, <2>5
<1> HIDE DEF part, ends
<1>11. part(1) + part(2) + part(3) + part(4) = n
  BY SMT, <1>5, <1>10
<1> QED
  BY <1>3, <1>8, <1>9, <1>11, Zenon

-----------------------------------------------------------------------------
(* A packet, written and read.                                             *)

\* A packet is a header byte, the length of a body, and the body; read back, it starts
\* and ends where it was written, and it took no more room than was asked for.
Wrapped(p, header, body) ==
  /\ p \in Seq(Byte) /\ p # <<>> /\ p[1] = header
  /\ DecodeLen(Tail(p)).len = Len(body) /\ DecodeLen(Tail(p)).used = LengthSize(Len(body))
  /\ Start(p) \in Places /\ Start(p) = 2 + LengthSize(Len(body))
  /\ End(p) = Start(p) + Len(body) /\ End(p) = Len(p) + 1
  /\ Len(p) <= FinalLength(Len(body)) /\ Len(body) < MaxLength
  /\ Holds(p, 2, WriteLen(Len(body)))
  /\ Holds(p, Start(p), body)

\* The bytes of a length are as many as its size says.
LEMMA LengthWritten ==
  ASSUME NEW n \in Nat, n < MaxLength
  PROVE  WriteLen(n) \in Seq(Byte) /\ Len(WriteLen(n)) = LengthSize(n)
<1>1. Digits(WriteLen(n), n)
  BY WriteLenDigits
<1> QED
  BY SMT, <1>1 DEF Digits

\* The size of a length grows with it.
LEMMA SizeIs ==
  ASSUME NEW n \in Nat
  PROVE  LengthSize(n) \in 1..4 /\ 1 + LengthSize(n) + n <= FinalLength(n)
<1>1. LengthSize(n) \in 1..4
  BY SMT DEF LengthSize
<1>2. 1 + LengthSize(n) + n <= FinalLength(n)
  BY SMT DEF LengthSize, FinalLength
<1> QED
  BY <1>1, <1>2

\* A packet written is a packet read.
LEMMA Wraps ==
  ASSUME NEW header \in Byte, NEW body \in Seq(Byte), Len(body) < MaxLength
  PROVE  Wrapped(<<header>> \o WriteLen(Len(body)) \o body, header, body)
<1>1. PICK n \in Nat : n = Len(body) /\ n < MaxLength
  <2>1. Len(body) \in Nat
    OBVIOUS
  <2> QED
    BY <2>1, Zenon
<1>2. PICK w \in Seq(Byte) : w = WriteLen(n) /\ Len(w) = LengthSize(n)
  BY <1>1, LengthWritten, Zenon
<1>3. PICK l \in 1..4 : l = LengthSize(n) /\ 1 + l + n <= FinalLength(n)
  BY SizeIs, Zenon
<1>4. PICK h \in Seq(Byte) : h = <<header>> /\ Len(h) = 1 /\ h[1] = header
  <2>1. <<header>> \in Seq(Byte) /\ Len(<<header>>) = 1 /\ <<header>>[1] = header
    BY FewBytes, Zenon
  <2> QED
    BY <2>1, Zenon
<1>5. PICK hw \in Seq(Byte) : /\ hw = h \o w /\ Len(hw) = 1 + l /\ hw[1] = header
                              /\ \A i \in 1..l : hw[1 + i] = w[i]
  <2>1. /\ h \o w \in Seq(Byte) /\ Len(h \o w) = 1 + l
        /\ \A i \in 1..(1 + l) : (h \o w)[i] = IF i <= 1 THEN h[i] ELSE w[i - 1]
    <3>1. /\ h \o w \in Seq(Byte) /\ Len(h \o w) = Len(h) + Len(w)
          /\ \A i \in 1..(Len(h) + Len(w)) : (h \o w)[i] = IF i <= Len(h) THEN h[i] ELSE w[i - Len(h)]
      BY ConcatProperties
    <3> QED
      BY <1>2, <1>3, <1>4, <3>1
  <2>2. (h \o w)[1] = header /\ \A i \in 1..l : (h \o w)[1 + i] = w[i]
    <3>1. \A i \in 1..l : 1 + i \in 1..(1 + l) /\ ~(1 + i <= 1) /\ (1 + i) - 1 = i
      OBVIOUS
    <3> QED
      BY <1>4, <2>1, <3>1
  <2> QED
    BY <2>1, <2>2
<1>6. PICK p \in Seq(Byte) : /\ p = hw \o body /\ Len(p) = 1 + l + n
                             /\ \A i \in 1..(1 + l) : p[i] = hw[i]
  <2>1. /\ hw \o body \in Seq(Byte) /\ Len(hw \o body) = Len(hw) + Len(body)
        /\ \A i \in 1..(Len(hw) + Len(body)) :
             (hw \o body)[i] = IF i <= Len(hw) THEN hw[i] ELSE body[i - Len(hw)]
    BY ConcatProperties
  <2>2. hw \o body \in Seq(Byte) /\ Len(hw \o body) = 1 + l + n
    BY <1>1, <1>5, <2>1
  <2>3. ASSUME NEW i \in 1..(1 + l) PROVE (hw \o body)[i] = hw[i]
    <3>1. i \in 1..(Len(hw) + Len(body)) /\ i <= Len(hw)
      BY <1>1, <1>5
    <3> QED
      BY <2>1, <3>1
  <2> QED
    BY <2>2, <2>3
<1>7. p = <<header>> \o WriteLen(Len(body)) \o body
  BY <1>1, <1>2, <1>4, <1>5, <1>6
<1>8. p # <<>> /\ p[1] = header
  <2>1. 1 \in 1..(1 + l) /\ Len(p) # 0
    BY <1>6
  <2> QED
    BY <1>5, <1>6, <2>1
<1>9. DecodeLen(Tail(p)) = [len |-> n, used |-> l]
  <2>1. PICK q \in Seq(Byte) : q = Tail(p) /\ Len(q) = l + n /\ \A i \in 1..(l + n) : q[i] = p[i + 1]
    <3>1. /\ Tail(p) \in Seq(Byte) /\ Len(Tail(p)) = Len(p) - 1
          /\ \A i \in 1..Len(Tail(p)) : Tail(p)[i] = p[i + 1]
      BY <1>8, HeadTailProperties
    <3>2. Len(p) - 1 = l + n
      BY <1>6
    <3> QED
      BY <3>1, <3>2, Zenon
  <2>2. Holds(q, 1, w)
    <3>1. 1 + Len(w) <= Len(q) + 1
      BY <1>2, <1>3, <2>1
    <3>2. ASSUME NEW i \in 1..l PROVE q[1 + i - 1] = w[i]
      <4>1. i \in 1..(l + n) /\ 1 + i - 1 = i /\ i + 1 = 1 + i /\ 1 + i \in 1..(1 + l)
        OBVIOUS
      <4> QED
        BY <1>5, <1>6, <2>1, <4>1
    <3> QED
      BY <1>2, <1>3, <3>1, <3>2 DEF Holds
  <2> QED
    BY <1>1, <1>2, <1>3, <2>1, <2>2, LengthIsRead
<1>10. Start(p) = 2 + l /\ Start(p) \in Places
  BY SMTT(30), <1>3, <1>9 DEF Start, Places
<1>11. End(p) = Start(p) + n /\ End(p) = Len(p) + 1
  BY <1>6, <1>9, <1>10 DEF End
<1>12. Holds(p, Start(p), body)
  <2>1. 1 \in Places /\ Holds(p, 1, hw \o body)
    <3>1. 1 \in Places
      BY DEF Places
    <3>2. Holds(p, 1, p)
      BY HoldsAll
    <3> QED
      BY <1>6, <3>1, <3>2, Zenon
  <2>2. Holds(p, 1 + Len(hw), body)
    BY <2>1, HoldsParts
  <2> QED
    BY <1>5, <1>10, <2>2
<1>13. DecodeLen(Tail(p)).len = n /\ DecodeLen(Tail(p)).used = l
  BY <1>9
<1>14. Len(p) <= FinalLength(n)
  BY <1>3, <1>6, Zenon
<1>15. Holds(p, 2, w)
  <2>1. 2 + Len(w) <= Len(p) + 1
    BY <1>2, <1>3, <1>6
  <2>2. ASSUME NEW i \in 1..l PROVE p[2 + i - 1] = w[i]
    <3>1. 2 + i - 1 = 1 + i /\ 1 + i \in 1..(1 + l)
      OBVIOUS
    <3> QED
      BY <1>5, <1>6, <3>1
  <2> QED
    BY <1>2, <1>3, <2>1, <2>2 DEF Holds
<1> HIDE DEF MaxLength
<1> QED
  BY <1>1, <1>2, <1>3, <1>7, <1>8, <1>10, <1>11, <1>12, <1>13, <1>14, <1>15, Zenon DEF Wrapped

-----------------------------------------------------------------------------
(* Lists of strings.                                                       *)

\* The first n pieces of q, one after the other.
PrefixesOf(f, q) ==
  /\ f \in [0..Len(q) -> Seq(Byte)]
  /\ f[0] = <<>>
  /\ \A n \in 1..Len(q) : f[n] = f[n - 1] \o q[n]

\* A prefix is a sequence, longer by a piece than the one before.
LEMMA PrefixesAre ==
  ASSUME NEW q \in Seq(Seq(Byte)), NEW f, PrefixesOf(f, q), NEW m \in Nat, m = Len(q)
  PROVE  /\ f \in [0..m -> Seq(Byte)] /\ f[0] = <<>> /\ 0 \in 0..m
         /\ \A n \in 1..m : /\ q[n] \in Seq(Byte) /\ f[n - 1] \in Seq(Byte) /\ f[n] \in Seq(Byte)
                            /\ f[n] = f[n - 1] \o q[n]
<1>1. f \in [0..m -> Seq(Byte)] /\ f[0] = <<>> /\ \A n \in 1..m : f[n] = f[n - 1] \o q[n]
  BY DEF PrefixesOf
<1>2. ASSUME NEW n \in 1..m PROVE q[n] \in Seq(Byte) /\ f[n - 1] \in Seq(Byte) /\ f[n] \in Seq(Byte)
  <2>1. q[n] \in Seq(Byte)
    <3>1. n \in 1..Len(q)
      OBVIOUS
    <3> QED
      BY <3>1, ElementOfSeq
  <2>2. n - 1 \in 0..m /\ n \in 0..m
    OBVIOUS
  <2> QED
    BY <1>1, <2>1, <2>2
<1>3. 0 \in 0..m
  OBVIOUS
<1> QED
  BY <1>1, <1>2, <1>3, Zenon

\* Every sequence of pieces has its prefixes.
LEMMA PrefixesExist ==
  ASSUME NEW q \in Seq(Seq(Byte))
  PROVE  \E f : PrefixesOf(f, q)
<1> DEFINE D == 0..Len(q)
           e == [n \in D |-> <<>>]
           down == [n \in D |-> IF n = 0 THEN 0 ELSE n - 1]
           step == [p \in D \X Seq(Byte) |-> IF p[1] = 0 THEN p[2] ELSE p[2] \o q[p[1]]]
<1>1. Len(q) \in Nat /\ \A n \in 1..Len(q) : q[n] \in Seq(Byte)
  OBVIOUS
<1>2. step \in [D \X Seq(Byte) -> Seq(Byte)]
  <2>1. ASSUME NEW n \in D, NEW s \in Seq(Byte) PROVE (IF n = 0 THEN s ELSE s \o q[n]) \in Seq(Byte)
    <3>1. CASE n # 0
      <4>1. q[n] \in Seq(Byte)
        BY <1>1, <3>1
      <4> QED
        BY <3>1, <4>1
    <3> QED
      BY <3>1
  <2> QED
    BY <2>1
<1>3. RecursionFrom(D, Seq(Byte), {0}, e, down, step)
  <2>1. D \in SUBSET Nat
    BY <1>1
  <2>2. e \in [D -> Seq(Byte)]
    OBVIOUS
  <2>3. down \in [D -> D] /\ \A n \in D : n \notin {0} => down[n] < n
    BY <1>1
  <2> HIDE DEF D, e, down, step
  <2> QED
    BY <1>2, <2>1, <2>2, <2>3 DEF RecursionFrom
<1>4. PICK f : Recursive(f, D, Seq(Byte), {0}, e, down, step)
  BY <1>3, Recursion
<1>5. /\ f \in [D -> Seq(Byte)]
      /\ \A n \in D : f[n] = IF n \in {0} THEN e[n] ELSE step[<<n, f[down[n]]>>]
  BY <1>4 DEF Recursive
<1>6. 0 \in D /\ f[0] = <<>>
  <2>1. 0 \in D /\ e[0] = <<>>
    BY <1>1
  <2> HIDE DEF D, e, down, step
  <2> QED
    BY <1>5, <2>1
<1>7. ASSUME NEW n \in 1..Len(q) PROVE f[n] = f[n - 1] \o q[n]
  <2>1. n \in D /\ n # 0 /\ down[n] = n - 1 /\ n - 1 \in D /\ f[n - 1] \in Seq(Byte)
    <3>1. n \in D /\ n # 0 /\ n - 1 \in D
      BY <1>1
    <3>2. down[n] = n - 1
      BY <3>1
    <3>3. f[n - 1] \in Seq(Byte)
      BY <1>5, <3>1
    <3> QED
      BY <3>1, <3>2, <3>3
  <2>2. f[n] = step[<<n, f[n - 1]>>]
    BY <1>5, <2>1
  <2> QED
    BY <2>1, <2>2
<1> QED
  BY <1>5, <1>6, <1>7 DEF PrefixesOf

\* Flattened, the pieces are the last prefix.
LEMMA FlattenIs ==
  ASSUME NEW q \in Seq(Seq(Byte)), NEW f, PrefixesOf(f, q)
  PROVE  FlattenSeq(q) = f[Len(q)] /\ FlattenSeq(q) \in Seq(Byte)
<1>1. PICK m \in Nat : m = Len(q)
  OBVIOUS
<1>2. /\ f \in [0..m -> Seq(Byte)] /\ f[0] = <<>> /\ 0 \in 0..m
      /\ \A n \in 1..m : /\ q[n] \in Seq(Byte) /\ f[n - 1] \in Seq(Byte) /\ f[n] \in Seq(Byte)
                         /\ f[n] = f[n - 1] \o q[n]
  BY <1>1, PrefixesAre
<1>3. CASE m = 0
  <2>1. q = <<>>
    BY <1>1, <1>3, EmptySeq
  <2>2. FlattenSeq(q) = q
    BY <1>1, <1>3 DEF FlattenSeq
  <2> QED
    BY <1>1, <1>2, <1>3, <2>1, <2>2
<1>4. CASE m # 0
  <2> DEFINE Is(g) == g = [i \in 1..Len(q) |-> IF i = 1 THEN q[i] ELSE g[i - 1] \o q[i]]
  <2>1. FlattenSeq(q) = (CHOOSE g : Is(g))[Len(q)]
    BY <1>1, <1>4 DEF FlattenSeq
  <2>2. Is([i \in 1..m |-> f[i]])
    <3>1. ASSUME NEW i \in 1..m
          PROVE  f[i] = IF i = 1 THEN q[i] ELSE [j \in 1..m |-> f[j]][i - 1] \o q[i]
      <4>1. CASE i = 1
        <5>1. f[i] = f[i - 1] \o q[i] /\ q[i] \in Seq(Byte)
          BY <1>2
        <5>4. i - 1 = 0
          BY <4>1
        <5>2. f[i] = <<>> \o q[i]
          BY <1>2, <5>1, <5>4
        <5>3. <<>> \o q[i] = q[i]
          BY <5>1, ConcatEmptySeq
        <5> QED
          BY <4>1, <5>2, <5>3
      <4>2. CASE i # 1
        <5>1. i - 1 \in 1..m
          BY <4>2
        <5> QED
          BY <1>2, <4>2, <5>1
      <4> QED
        BY <4>1, <4>2
    <3> QED
      BY <1>1, <3>1
  <2>3. PICK g : g = (CHOOSE h : Is(h)) /\ Is(g)
    <3> HIDE DEF Is
    <3> QED
      BY <2>2, Zenon
  <2>4. \A i \in 1..m : g[i] = IF i = 1 THEN q[i] ELSE g[i - 1] \o q[i]
    <3>1. g = [i \in 1..m |-> IF i = 1 THEN q[i] ELSE g[i - 1] \o q[i]]
      BY <1>1, <2>3
    <3> QED
      BY <3>1
  <2> DEFINE T == {n \in Nat : n \in 1..m => g[n] = f[n]}
  <2>5. ASSUME NEW n \in Nat, \A k \in Nat : k < n => k \in T PROVE n \in T
    <3> SUFFICES ASSUME n \in 1..m PROVE g[n] = f[n]
      OBVIOUS
    <3>1. CASE n = 1
      <4>1. f[n] = f[n - 1] \o q[n] /\ q[n] \in Seq(Byte)
        BY <1>2
      <4>4. n - 1 = 0
        BY <3>1
      <4>2. f[n] = <<>> \o q[n] /\ <<>> \o q[n] = q[n]
        BY <1>2, <4>1, <4>4, ConcatEmptySeq
      <4>3. g[n] = q[n]
        BY <2>4, <3>1
      <4> QED
        BY <4>2, <4>3
    <3>2. CASE n # 1
      <4>1. n - 1 \in 1..m /\ n - 1 \in Nat /\ n - 1 < n
        BY <3>2
      <4>2. g[n - 1] = f[n - 1]
        BY <2>5, <4>1
      <4> QED
        BY <1>2, <2>4, <3>2, <4>2
    <3> QED
      BY <3>1, <3>2
  <2> HIDE DEF T
  <2>6. Nat \subseteq T
    BY <2>5, Induction
  <2>7. m \in Nat /\ m \in 1..m
    BY <1>4
  <2>8. g[m] = f[m]
    BY <2>6, <2>7 DEF T
  <2>9. f[m] \in Seq(Byte)
    BY <1>2, <2>7
  <2>10. FlattenSeq(q) = g[m]
    BY <1>1, <2>1, <2>3
  <2> QED
    BY <1>1, <2>8, <2>9, <2>10
<1> QED
  BY <1>3, <1>4

\* The sum of lengths goes up one by one.
LEMMA SumIs ==
  ASSUME NEW lengths \in Seq(Nat)
  PROVE  \E s \in [0..Len(lengths) -> Nat] :
           /\ s[0] = 0 /\ \A n \in 1..Len(lengths) : s[n] = s[n - 1] + lengths[n]
           /\ SumOf(lengths) = s[Len(lengths)]
<1>1. PICK m \in Nat : m = Len(lengths)
  OBVIOUS
<1> DEFINE D == 0..m
           e == [n \in D |-> 0]
           down == [n \in D |-> IF n = 0 THEN 0 ELSE n - 1]
           step == [p \in D \X Nat |-> IF p[1] = 0 THEN p[2] ELSE p[2] + lengths[p[1]]]
           Is(g) == g = [n \in 0..Len(lengths) |-> IF n = 0 THEN 0 ELSE g[n - 1] + lengths[n]]
<1>2. \A n \in 1..m : lengths[n] \in Nat
  BY <1>1
<1>3. RecursionFrom(D, Nat, {0}, e, down, step)
  <2>1. D \in SUBSET Nat /\ e \in [D -> Nat]
    OBVIOUS
  <2>2. down \in [D -> D] /\ \A n \in D : n \notin {0} => down[n] < n
    OBVIOUS
  <2>3. step \in [D \X Nat -> Nat]
    <3>1. ASSUME NEW n \in D, NEW s \in Nat PROVE (IF n = 0 THEN s ELSE s + lengths[n]) \in Nat
      BY <1>2
    <3> QED
      BY <3>1
  <2> HIDE DEF D, e, down, step
  <2> QED
    BY <2>1, <2>2, <2>3 DEF RecursionFrom
<1>4. PICK f : Recursive(f, D, Nat, {0}, e, down, step)
  BY <1>3, Recursion
<1>5. /\ f \in [D -> Nat]
      /\ \A n \in D : f[n] = IF n \in {0} THEN e[n] ELSE step[<<n, f[down[n]]>>]
  BY <1>4 DEF Recursive
<1>6. \A n \in D : f[n] = IF n = 0 THEN 0 ELSE f[n - 1] + lengths[n]
  <2> SUFFICES ASSUME NEW n \in D, n # 0 PROVE f[n] = f[n - 1] + lengths[n]
    BY <1>5
  <2>1. down[n] = n - 1 /\ n - 1 \in D /\ f[n - 1] \in Nat
    BY <1>5
  <2> QED
    BY <1>5, <2>1
<1>7. Is(f)
  BY <1>1, <1>5, <1>6
<1>8. PICK g : g = (CHOOSE h : Is(h)) /\ Is(g)
  <2> HIDE DEF Is
  <2> QED
    BY <1>7, Zenon
<1>9. SumOf(lengths) = g[m]
  BY <1>1, <1>8 DEF SumOf
<1>10. \A n \in 0..m : g[n] = IF n = 0 THEN 0 ELSE g[n - 1] + lengths[n]
  <2>1. g = [n \in 0..m |-> IF n = 0 THEN 0 ELSE g[n - 1] + lengths[n]]
    BY <1>1, <1>8
  <2> QED
    BY <2>1
<1> DEFINE T == {n \in Nat : n \in 0..m => g[n] = f[n]}
<1>11. ASSUME NEW n \in Nat, \A k \in Nat : k < n => k \in T PROVE n \in T
  <2> SUFFICES ASSUME n \in 0..m PROVE g[n] = f[n]
    OBVIOUS
  <2>1. CASE n # 0
    <3>1. n - 1 \in 0..m /\ n - 1 \in Nat /\ n - 1 < n
      BY <2>1
    <3>2. g[n - 1] = f[n - 1]
      BY <1>11, <3>1
    <3> QED
      BY <1>6, <1>10, <2>1, <3>2
  <2> QED
    BY <1>6, <1>10, <2>1
<1> HIDE DEF T
<1>12. Nat \subseteq T
  BY <1>11, Induction
<1>13. SumOf(lengths) = f[m]
  BY <1>9, <1>12 DEF T
<1>14. f[0] = 0 /\ \A n \in 1..m : f[n] = f[n - 1] + lengths[n]
  BY <1>6
<1> QED
  BY <1>1, <1>5, <1>13, <1>14

\* The pieces take as many bytes as their lengths say in sum.
LEMMA FlattenLength ==
  ASSUME NEW q \in Seq(Seq(Byte)), NEW lengths \in Seq(Nat), Len(lengths) = Len(q),
         \A i \in 1..Len(q) : lengths[i] = Len(q[i])
  PROVE  FlattenSeq(q) \in Seq(Byte) /\ Len(FlattenSeq(q)) = SumOf(lengths)
<1>1. PICK m \in Nat : m = Len(q)
  OBVIOUS
<1>2. PICK f : PrefixesOf(f, q)
  BY PrefixesExist
<1>3. /\ f \in [0..m -> Seq(Byte)] /\ f[0] = <<>> /\ 0 \in 0..m
      /\ \A n \in 1..m : /\ q[n] \in Seq(Byte) /\ f[n - 1] \in Seq(Byte) /\ f[n] \in Seq(Byte)
                         /\ f[n] = f[n - 1] \o q[n]
  BY <1>1, <1>2, PrefixesAre
<1>4. PICK s \in [0..m -> Nat] :
        s[0] = 0 /\ (\A n \in 1..m : s[n] = s[n - 1] + lengths[n]) /\ SumOf(lengths) = s[m]
  BY <1>1, SumIs
<1> DEFINE T == {n \in Nat : n \in 0..m => Len(f[n]) = s[n]}
<1>5. ASSUME NEW n \in Nat, \A k \in Nat : k < n => k \in T PROVE n \in T
  <2> SUFFICES ASSUME n \in 0..m PROVE Len(f[n]) = s[n]
    OBVIOUS
  <2>1. CASE n = 0
    BY <1>3, <1>4, <2>1
  <2>2. CASE n # 0
    <3>1. n - 1 \in 0..m /\ n - 1 \in Nat /\ n - 1 < n /\ n \in 1..m
      BY <2>2
    <3>2. Len(f[n - 1]) = s[n - 1]
      BY <1>5, <3>1
    <3>3. f[n - 1] \in Seq(Byte) /\ q[n] \in Seq(Byte) /\ f[n] = f[n - 1] \o q[n]
      BY <1>3, <3>1
    <3>4. Len(f[n]) = Len(f[n - 1]) + Len(q[n])
      BY <3>3, ConcatProperties
    <3>5. s[n] = s[n - 1] + Len(q[n])
      BY <1>1, <1>4, <3>1
    <3> QED
      BY <3>2, <3>4, <3>5
  <2> QED
    BY <2>1, <2>2
<1> HIDE DEF T
<1>6. Nat \subseteq T
  BY <1>5, Induction
<1>7. Len(f[m]) = s[m]
  BY <1>6 DEF T
<1> QED
  BY <1>1, <1>2, <1>4, <1>7, FlattenIs

\* A buffer that holds the pieces holds each of them behind those before it.
LEMMA FlattenRead ==
  ASSUME NEW q \in Seq(Seq(Byte)), NEW f, PrefixesOf(f, q),
         NEW buf \in Seq(Byte), NEW at \in Places, Holds(buf, at, FlattenSeq(q))
  PROVE  \A n \in 1..Len(q) : /\ Holds(buf, at + Len(f[n - 1]), q[n])
                              /\ at + Len(f[n - 1]) \in Places
                              /\ Len(f[n]) = Len(f[n - 1]) + Len(q[n])
<1>1. PICK m \in Nat : m = Len(q)
  OBVIOUS
<1>2. /\ f \in [0..m -> Seq(Byte)] /\ f[0] = <<>> /\ 0 \in 0..m
      /\ \A n \in 1..m : /\ q[n] \in Seq(Byte) /\ f[n - 1] \in Seq(Byte) /\ f[n] \in Seq(Byte)
                         /\ f[n] = f[n - 1] \o q[n]
  BY <1>1, PrefixesAre
<1>3. Holds(buf, at, f[m])
  BY <1>1, FlattenIs
<1> DEFINE T == {k \in Nat : k \in 0..m => Holds(buf, at, f[m - k])}
<1>4. ASSUME NEW n \in 1..m, Holds(buf, at, f[n])
      PROVE  /\ Holds(buf, at, f[n - 1]) /\ Holds(buf, at + Len(f[n - 1]), q[n])
             /\ at + Len(f[n - 1]) \in Places /\ Len(f[n]) = Len(f[n - 1]) + Len(q[n])
  <2>1. f[n - 1] \in Seq(Byte) /\ q[n] \in Seq(Byte) /\ f[n] = f[n - 1] \o q[n]
    BY <1>2
  <2>2. Holds(buf, at, f[n - 1] \o q[n])
    BY <1>4, <2>1
  <2>3. Len(f[n - 1] \o q[n]) = Len(f[n - 1]) + Len(q[n])
    BY <2>1, ConcatProperties
  <2> QED
    BY <2>1, <2>2, <2>3, HoldsParts
<1>5. ASSUME NEW n \in Nat, \A k \in Nat : k < n => k \in T PROVE n \in T
  <2> SUFFICES ASSUME n \in 0..m PROVE Holds(buf, at, f[m - n])
    OBVIOUS
  <2>1. CASE n = 0
    <3>1. m - n = m
      BY <2>1
    <3> QED
      BY <1>3, <3>1
  <2>2. CASE n # 0
    <3>1. n - 1 \in 0..m /\ n - 1 \in Nat /\ n - 1 < n /\ m - (n - 1) \in 1..m /\ (m - (n - 1)) - 1 = m - n
      BY <2>2
    <3>2. Holds(buf, at, f[m - (n - 1)])
      BY <1>5, <3>1
    <3> QED
      BY <1>4, <3>1, <3>2
  <2> QED
    BY <2>1, <2>2
<1> HIDE DEF T
<1>6. Nat \subseteq T
  BY <1>5, Induction
<1>7. ASSUME NEW n \in 1..m PROVE Holds(buf, at, f[n])
  <2>1. m - n \in Nat /\ m - n \in 0..m /\ m - (m - n) = n
    OBVIOUS
  <2>2. Holds(buf, at, f[m - (m - n)])
    BY <1>6, <2>1 DEF T
  <2> QED
    BY <2>1, <2>2
<1> QED
  BY <1>1, <1>4, <1>7

-----------------------------------------------------------------------------
(* The header byte.                                                        *)

\* Each type has a number of its own.
LEMMA TypeNumber ==
  /\ DOMAIN MessageTypes = 1..14
  /\ \A t \in 1..14 : (CHOOSE k \in DOMAIN MessageTypes : MessageTypes[k] = MessageTypes[t]) = t
<1>2. DOMAIN MessageTypes = 1..14
  BY DEF MessageTypes
<1>3. \A t \in 1..14 : t = 1 \/ t = 2 \/ t = 3 \/ t = 4 \/ t = 5 \/ t = 6 \/ t = 7 \/ t = 8 \/ t = 9
                       \/ t = 10 \/ t = 11 \/ t = 12 \/ t = 13 \/ t = 14
  OBVIOUS
<1>4. ASSUME NEW t \in 1..14, NEW k \in 1..14, MessageTypes[k] = MessageTypes[t] PROVE k = t
  BY <1>3, <1>4 DEF MessageTypes
<1>5. ASSUME NEW t \in 1..14 PROVE (CHOOSE k \in DOMAIN MessageTypes : MessageTypes[k] = MessageTypes[t]) = t
  BY <1>2, <1>4
<1> QED
  BY <1>2, <1>5

\* What is written in a header byte is read back from it.
HeaderSays(h, type, qos, dup, retained) ==
  h \in Byte /\ TypeOf(h) = type /\ QosOf(h) = qos /\ DupOf(h) = dup /\ RetainOf(h) = retained

\* The header byte keeps the type and the three flags apart.
LEMMA HeaderRead ==
  ASSUME NEW t \in 1..14, NEW qos \in 0..1, NEW dup \in 0..1, NEW retained \in 0..1
  PROVE  HeaderSays(Header(MessageTypes[t], qos, dup, retained), MessageTypes[t], qos, dup, retained)
<1>1. PICK h \in Nat : h = Header(MessageTypes[t], qos, dup, retained)
                       /\ h = t * 16 + dup * 8 + (qos * 2) + retained
  <2>1. (CHOOSE k \in DOMAIN MessageTypes : MessageTypes[k] = MessageTypes[t]) = t
    BY TypeNumber
  <2>2. Header(MessageTypes[t], qos, dup, retained) = t * 16 + dup * 8 + (qos * 2) + retained
    <3>1. /\ (IF qos = 1 THEN 2 ELSE 0) = qos * 2
          /\ (IF retained = 1 THEN 1 ELSE 0) = retained
      OBVIOUS
    <3> QED
      BY <2>1, <3>1, Zenon DEF Header
  <2> QED
    BY <2>2
<1>2. h \div 16 = t /\ (h \div 8) % 2 = dup /\ (h \div 2) % 4 = qos /\ h % 2 = retained /\ h <= 255
  BY <1>1
<1>3. h \in Byte
  BY <1>2, ByteIs
<1>4. TypeOf(h) = MessageTypes[t]
  BY <1>2, TypeNumber DEF TypeOf
<1> QED
  BY <1>1, <1>2, <1>3, <1>4 DEF HeaderSays, DupOf, QosOf, RetainOf

\* Of each packet the client sends.
LEMMA ClientHeaders ==
  /\ HeaderSays(Header("CONNECT", 0, 0, 0), "CONNECT", 0, 0, 0)
  /\ \A qos, dup, retained \in 0..1 :
       HeaderSays(Header("PUBLISH", qos, dup, retained), "PUBLISH", qos, dup, retained)
  /\ HeaderSays(Header("PUBACK", 0, 0, 0), "PUBACK", 0, 0, 0)
  /\ HeaderSays(Header("SUBSCRIBE", 1, 0, 0), "SUBSCRIBE", 1, 0, 0)
  /\ HeaderSays(Header("UNSUBSCRIBE", 1, 0, 0), "UNSUBSCRIBE", 1, 0, 0)
  /\ HeaderSays(Header("PINGREQ", 0, 0, 0), "PINGREQ", 0, 0, 0)
  /\ HeaderSays(Header("DISCONNECT", 0, 0, 0), "DISCONNECT", 0, 0, 0)
<1>1. /\ MessageTypes[1] = "CONNECT" /\ MessageTypes[3] = "PUBLISH" /\ MessageTypes[4] = "PUBACK"
      /\ MessageTypes[8] = "SUBSCRIBE" /\ MessageTypes[10] = "UNSUBSCRIBE"
      /\ MessageTypes[12] = "PINGREQ" /\ MessageTypes[14] = "DISCONNECT"
  BY DEF MessageTypes
<1>2. 1 \in 1..14 /\ 3 \in 1..14 /\ 4 \in 1..14 /\ 8 \in 1..14 /\ 10 \in 1..14 /\ 12 \in 1..14 /\ 14 \in 1..14
  OBVIOUS
<1>3. 0 \in 0..1 /\ 1 \in 0..1
  OBVIOUS
<1>4. \A t \in 1..14 : \A qos, dup, retained \in 0..1 :
        HeaderSays(Header(MessageTypes[t], qos, dup, retained), MessageTypes[t], qos, dup, retained)
  BY HeaderRead
<1> QED
  BY <1>1, <1>2, <1>3, <1>4, Zenon

\* Of each packet the broker sends besides.
LEMMA BrokerHeaders ==
  /\ HeaderSays(Header("SUBACK", 0, 0, 0), "SUBACK", 0, 0, 0)
  /\ HeaderSays(Header("UNSUBACK", 0, 0, 0), "UNSUBACK", 0, 0, 0)
  /\ HeaderSays(Header("PINGRESP", 0, 0, 0), "PINGRESP", 0, 0, 0)
<1>1. MessageTypes[9] = "SUBACK" /\ MessageTypes[11] = "UNSUBACK" /\ MessageTypes[13] = "PINGRESP"
  BY DEF MessageTypes
<1>2. 9 \in 1..14 /\ 11 \in 1..14 /\ 13 \in 1..14 /\ 0 \in 0..1
  OBVIOUS
<1>3. \A t \in 1..14 : \A qos, dup, retained \in 0..1 :
        HeaderSays(Header(MessageTypes[t], qos, dup, retained), MessageTypes[t], qos, dup, retained)
  BY HeaderRead
<1> QED
  BY <1>1, <1>2, <1>3, Zenon

-----------------------------------------------------------------------------
(* Packets that fit their buffer.                                          *)

\* A packet that fits its buffer is read as it was written.
LEMMA PacketWraps ==
  ASSUME NEW header \in Byte, NEW body \in Seq(Byte), NEW room \in Nat, room < MaxLength,
         Packet(header, Len(body), body, room) # <<>>
  PROVE  Wrapped(Packet(header, Len(body), body, room), header, body)
<1>1. PICK n \in Nat : n = Len(body)
  OBVIOUS
<1>2. FinalLength(n) <= room /\ Packet(header, n, body, room) = <<header>> \o WriteLen(n) \o body
  <2>1. FinalLength(n) \in Nat
    BY SMT DEF FinalLength
  <2>2. ~(FinalLength(n) > room) /\ Packet(header, n, body, room) = <<header>> \o WriteLen(n) \o body
    BY <1>1, Zenon DEF Packet
  <2> QED
    BY <2>1, <2>2
<1>3. n < MaxLength
  <2>1. n < FinalLength(n) /\ FinalLength(n) \in Nat
    BY SMT DEF FinalLength
  <2>2. MaxLength \in Nat
    BY SMT DEF MaxLength
  <2> QED
    BY <1>2, <2>1, <2>2
<1> QED
  BY <1>1, <1>2, <1>3, Wraps, Zenon

\* One after the other, with the lengths added.
LEMMA Joins ==
  ASSUME NEW s \in Seq(Byte), NEW t \in Seq(Byte)
  PROVE  s \o t \in Seq(Byte) /\ Len(s \o t) = Len(s) + Len(t)
  BY ConcatProperties

-----------------------------------------------------------------------------
(* A PUBLISH.                                                              *)

\* The identifier that a PUBLISH carries.
IdPart(r) == IF r.qos > 0 THEN WriteU16(r.id) ELSE <<>>
PublishBody(r) == WriteString(r.topic) \o IdPart(r) \o r.payload

\* The length of a PUBLISH counts what is written.
LEMMA PublishBodyIs ==
  ASSUME NEW r \in PublishPackets
  PROVE  /\ r.topic \in String /\ r.topic \in Seq(Byte) /\ Len(r.topic) \in Nat
         /\ r.payload \in Seq(Byte) /\ r.id \in Word
         /\ r.qos \in 0..1 /\ r.dup \in 0..1 /\ r.retained \in 0..1
         /\ IdPart(r) \in Seq(Byte) /\ Len(IdPart(r)) = IF r.qos > 0 THEN 2 ELSE 0
         /\ WriteString(r.topic) \o IdPart(r) \in Seq(Byte)
         /\ Len(WriteString(r.topic) \o IdPart(r)) = 2 + Len(r.topic) + Len(IdPart(r))
         /\ PublishBody(r) \in Seq(Byte)
         /\ Len(PublishBody(r)) = Len(r.topic) + Len(r.payload) + 2 + (IF r.qos > 0 THEN 2 ELSE 0)
<1>1. /\ r.topic \in String /\ r.payload \in Seq(Byte) /\ r.id \in Word
      /\ r.qos \in 0..1 /\ r.dup \in 0..1 /\ r.retained \in 0..1
  BY DEF PublishPackets
<1>2. PICK s \in Seq(Byte) : s = WriteString(r.topic) /\ Len(s) = 2 + Len(r.topic)
  BY <1>1, StringTyped
<1>3. PICK i \in Seq(Byte) : i = IdPart(r) /\ Len(i) = IF r.qos > 0 THEN 2 ELSE 0
  <2>1. CASE r.qos > 0
    BY <1>1, <2>1, U16Typed DEF IdPart
  <2>2. CASE ~(r.qos > 0)
    <3>1. IdPart(r) = <<>> /\ (IF r.qos > 0 THEN 2 ELSE 0) = 0
      BY <2>2 DEF IdPart
    <3>2. <<>> \in Seq(Byte) /\ Len(<<>>) = 0
      OBVIOUS
    <3> QED
      BY <3>1, <3>2, Zenon
  <2> QED
    BY <2>1, <2>2, Zenon
<1>4. PICK si \in Seq(Byte) : si = s \o i /\ Len(si) = Len(s) + Len(i)
  BY Joins
<1>5. PICK b \in Seq(Byte) : b = si \o r.payload /\ Len(b) = Len(si) + Len(r.payload)
  BY <1>1, Joins
<1>6. PublishBody(r) = b
  BY <1>2, <1>3, <1>4, <1>5 DEF PublishBody
<1>7. r.topic \in Seq(Byte) /\ Len(r.topic) \in Nat
  BY <1>1 DEF String
<1>8. Len(r.payload) \in Nat
  BY <1>1
<1>9. WriteString(r.topic) \o IdPart(r) = si
  BY <1>2, <1>3, <1>4, Zenon
<1>10. Len(IdPart(r)) = Len(i) /\ IdPart(r) \in Seq(Byte) /\ Len(i) \in Nat
  BY <1>3
<1>11. Len(si) = 2 + Len(r.topic) + Len(IdPart(r))
  BY <1>2, <1>4, <1>7, <1>10
<1>12. Len(b) = Len(r.topic) + Len(r.payload) + 2 + Len(i)
  <2>1. PICK t \in Nat, l \in Nat, j \in Nat : t = Len(r.topic) /\ l = Len(r.payload) /\ j = Len(i)
    BY <1>7, <1>8, <1>10
  <2>2. Len(b) = (2 + t + j) + l
    BY <1>5, <1>10, <1>11, <2>1
  <2>3. (2 + t + j) + l = t + l + 2 + j
    OBVIOUS
  <2> QED
    BY <2>1, <2>2, <2>3, Zenon
<1> QED
  BY <1>1, <1>3, <1>4, <1>6, <1>7, <1>9, <1>10, <1>11, <1>12, Zenon

\* A PUBLISH that fits is wrapped as the others.
LEMMA PublishWraps ==
  ASSUME NEW r \in PublishPackets, NEW room \in Nat, room < MaxLength, SerializePublish(r, room) # <<>>
  PROVE  /\ Wrapped(SerializePublish(r, room), Header("PUBLISH", r.qos, r.dup, r.retained), PublishBody(r))
         /\ HeaderSays(Header("PUBLISH", r.qos, r.dup, r.retained), "PUBLISH", r.qos, r.dup, r.retained)
<1>1. HeaderSays(Header("PUBLISH", r.qos, r.dup, r.retained), "PUBLISH", r.qos, r.dup, r.retained)
  BY PublishBodyIs, ClientHeaders, Zenon
<1>2. Header("PUBLISH", r.qos, r.dup, r.retained) \in Byte
  BY <1>1 DEF HeaderSays
<1>3. SerializePublish(r, room)
        = Packet(Header("PUBLISH", r.qos, r.dup, r.retained), Len(PublishBody(r)), PublishBody(r), room)
  <2>1. Len(PublishBody(r)) = Len(r.topic) + Len(r.payload) + 2 + (IF r.qos > 0 THEN 2 ELSE 0)
    BY PublishBodyIs, Zenon
  <2>2. PublishBody(r) = WriteString(r.topic) \o (IF r.qos > 0 THEN WriteU16(r.id) ELSE <<>>) \o r.payload
    BY DEF PublishBody, IdPart
  <2> QED
    BY <2>1, <2>2, Zenon DEF SerializePublish
<1>4. PublishBody(r) \in Seq(Byte)
  BY PublishBodyIs, Zenon
<1> QED
  BY <1>1, <1>2, <1>3, <1>4, PacketWraps, Zenon

\* What was published is read back.
LEMMA PublishReadBack ==
  ASSUME NEW r \in PublishPackets, NEW room \in Nat, room < MaxLength, SerializePublish(r, room) # <<>>
  PROVE  DeserializePublish(SerializePublish(r, room)) = [r EXCEPT !.id = IF r.qos = 0 THEN 0 ELSE @]
<1>1. PICK p, h : /\ p = SerializePublish(r, room) /\ h = Header("PUBLISH", r.qos, r.dup, r.retained)
                  /\ Wrapped(p, h, PublishBody(r))
                  /\ HeaderSays(h, "PUBLISH", r.qos, r.dup, r.retained)
  BY PublishWraps, Zenon
<1>2. PICK from \in Places, end \in Nat, m \in Nat, n \in Nat, k \in Nat :
        /\ from = Start(p) /\ end = End(p) /\ end = Len(p) + 1 /\ p \in Seq(Byte)
        /\ m = Len(PublishBody(r)) /\ DecodeLen(Tail(p)).len = m /\ end = from + m
        /\ Holds(p, from, PublishBody(r))
        /\ n = Len(r.topic) /\ k = Len(r.payload)
        /\ m = n + k + 2 + (IF r.qos > 0 THEN 2 ELSE 0)
  <2>1. /\ Start(p) \in Places /\ End(p) = Len(p) + 1 /\ p \in Seq(Byte)
        /\ DecodeLen(Tail(p)).len = Len(PublishBody(r)) /\ End(p) = Start(p) + Len(PublishBody(r))
        /\ Holds(p, Start(p), PublishBody(r))
    BY <1>1, Zenon DEF Wrapped
  <2>2. /\ PublishBody(r) \in Seq(Byte) /\ r.payload \in Seq(Byte) /\ Len(r.topic) \in Nat
        /\ Len(PublishBody(r)) = Len(r.topic) + Len(r.payload) + 2 + (IF r.qos > 0 THEN 2 ELSE 0)
    BY PublishBodyIs, Zenon
  <2>3. Len(PublishBody(r)) \in Nat /\ Len(r.payload) \in Nat
    BY <2>2, LenProperties, Zenon
  <2>4. End(p) \in Nat
    <3>1. Len(p) \in Nat
      BY <2>1, LenProperties, Zenon
    <3> QED
      BY <2>1, <3>1
  <2> QED
    BY <2>1, <2>2, <2>3, <2>4, Zenon
<1>3. PICK si \in Seq(Byte) : /\ si = WriteString(r.topic) \o IdPart(r)
                              /\ Len(si) = 2 + n + (IF r.qos > 0 THEN 2 ELSE 0)
                              /\ PublishBody(r) = si \o r.payload
  BY <1>2, PublishBodyIs DEF PublishBody
<1>4. /\ Holds(p, from, si) /\ Holds(p, from + Len(si), r.payload) /\ from + Len(si) \in Places
  <2>1. r.payload \in Seq(Byte) /\ Holds(p, from, si \o r.payload)
    BY <1>2, <1>3, PublishBodyIs, Zenon
  <2> QED
    BY <1>2, <2>1, HoldsParts, Zenon
<1>5. /\ Holds(p, from, WriteString(r.topic)) /\ Holds(p, from + (2 + n), IdPart(r)) /\ from + (2 + n) \in Places
  <2>1. WriteString(r.topic) \in Seq(Byte) /\ Len(WriteString(r.topic)) = 2 + n /\ IdPart(r) \in Seq(Byte)
    BY <1>2, StringTyped, PublishBodyIs, Zenon
  <2>2. Holds(p, from, WriteString(r.topic) \o IdPart(r))
    BY <1>3, <1>4
  <2>3. /\ Holds(p, from, WriteString(r.topic)) /\ Holds(p, from + Len(WriteString(r.topic)), IdPart(r))
        /\ from + Len(WriteString(r.topic)) \in Places
    BY <1>2, <2>1, <2>2, HoldsParts, Zenon
  <2> QED
    BY <2>1, <2>3, Zenon
<1>6. ReadU16(p, from) = n /\ SubSeq(p, from + 2, from + 1 + n) = r.topic
  <2>1. r.topic \in String
    BY PublishBodyIs, Zenon
  <2>2. ReadU16(p, from) = Len(r.topic) /\ SubSeq(p, from + 2, from + 1 + Len(r.topic)) = r.topic
    <3>1. p \in Seq(Byte) /\ Holds(p, from, WriteString(r.topic))
      BY <1>2, <1>5, Zenon
    <3> QED
      BY <2>1, <3>1, StringRead
  <2> QED
    BY <1>2, <2>2, Zenon
<1>7. r.qos \in 0..1 /\ (r.qos = 0 \/ r.qos = 1) /\ QosOf(p[1]) = r.qos /\ TypeOf(p[1]) = "PUBLISH"
      /\ DupOf(p[1]) = r.dup /\ RetainOf(p[1]) = r.retained
  <2>1. r.qos \in 0..1
    BY PublishBodyIs, Zenon
  <2>2. p[1] = h
    BY <1>1, Zenon DEF Wrapped
  <2> QED
    BY <1>1, <2>1, <2>2 DEF HeaderSays
<1>8. PICK rest \in Places : /\ rest = from + 2 + n + (IF QosOf(p[1]) # 0 THEN 2 ELSE 0)
                             /\ rest = from + Len(si) /\ rest + k = end
  <2>1. PICK x \in Nat : x = (IF QosOf(p[1]) # 0 THEN 2 ELSE 0) /\ x = (IF r.qos > 0 THEN 2 ELSE 0)
    BY <1>7
  <2>2. m = n + k + 2 + x /\ Len(si) = 2 + n + x /\ end = from + m
    BY <1>2, <1>3, <2>1, Zenon
  <2>3. from + 2 + n + x \in Places /\ from + 2 + n + x = from + (2 + n + x) /\ from + 2 + n + x + k = from + (n + k + 2 + x)
    BY DEF Places
  <2> QED
    BY <2>1, <2>2, <2>3, Zenon
<1>9. SubSeq(p, rest, end - 1) = r.payload
  <2>1. rest + k - 1 = end - 1
    BY <1>8
  <2>2. r.payload \in Seq(Byte) /\ Holds(p, rest, r.payload)
    BY <1>4, <1>8, PublishBodyIs, Zenon
  <2>3. SubSeq(p, rest, rest + Len(r.payload) - 1) = r.payload
    BY <1>2, <2>2, HoldsSub, Zenon
  <2> QED
    BY <1>2, <2>1, <2>3, Zenon
<1>10. ~(m < 2) /\ ~(from + 2 + n > end) /\ rest <= end
  <2>1. PICK x \in Nat : x = (IF r.qos > 0 THEN 2 ELSE 0)
    OBVIOUS
  <2>2. m = n + k + 2 + x /\ end = from + m
    BY <1>2, <2>1, Zenon
  <2>3. ~(n + k + 2 + x < 2) /\ ~(from + 2 + n > from + (n + k + 2 + x))
    BY DEF Places
  <2>4. rest <= rest + k
    BY DEF Places
  <2> QED
    BY <1>8, <2>2, <2>3, <2>4, Zenon
<1>11. r.qos # 0 => ReadU16(p, from + 2 + n) = r.id
  <2>1. SUFFICES ASSUME r.qos # 0 PROVE ReadU16(p, from + 2 + n) = r.id
    OBVIOUS
  <2>2. r.qos > 0
    BY <1>7, <2>1
  <2>3. IdPart(r) = WriteU16(r.id) /\ r.id \in Word
    BY <2>2, PublishBodyIs DEF IdPart
  <2>4. from + (2 + n) = from + 2 + n
    BY DEF Places
  <2> QED
    BY <1>2, <1>5, <2>3, <2>4, U16Read, Zenon
<1>12. DeserializePublish(p)
         = [type |-> "PUBLISH", dup |-> r.dup, qos |-> r.qos, retained |-> r.retained,
            id |-> IF r.qos = 0 THEN 0 ELSE r.id, topic |-> r.topic, payload |-> r.payload]
  <2>1. DeserializePublish(p)
         = [type |-> "PUBLISH", dup |-> DupOf(p[1]), qos |-> QosOf(p[1]), retained |-> RetainOf(p[1]),
            id |-> IF QosOf(p[1]) = 0 THEN 0 ELSE IF rest <= end THEN ReadU16(p, from + 2 + n) ELSE -1,
            topic |-> SubSeq(p, from + 2, from + 1 + n), payload |-> SubSeq(p, rest, end - 1)]
    BY <1>2, <1>6, <1>7, <1>8, <1>10, Zenon DEF DeserializePublish
  <2>2. (IF QosOf(p[1]) = 0 THEN 0 ELSE IF rest <= end THEN ReadU16(p, from + 2 + n) ELSE -1)
          = IF r.qos = 0 THEN 0 ELSE r.id
    BY <1>7, <1>10, <1>11
  <2> QED
    BY <1>6, <1>7, <1>9, <2>1, <2>2, Zenon
<1>13. [r EXCEPT !.id = IF r.qos = 0 THEN 0 ELSE @]
         = [type |-> "PUBLISH", dup |-> r.dup, qos |-> r.qos, retained |-> r.retained,
            id |-> IF r.qos = 0 THEN 0 ELSE r.id, topic |-> r.topic, payload |-> r.payload]
  BY DEF PublishPackets
<1> QED
  BY <1>1, <1>12, <1>13

-----------------------------------------------------------------------------
(* The other packets.                                                      *)

\* An acknowledgment of two bytes.
LEMMA AckWraps ==
  ASSUME NEW header \in Byte, NEW id \in Word
  PROVE  Wrapped(<<header>> \o WriteLen(2) \o WriteU16(id), header, WriteU16(id))
<1>1. WriteU16(id) \in Seq(Byte) /\ Len(WriteU16(id)) = 2
  BY U16Typed
<1>2. 2 < MaxLength
  BY SMT DEF MaxLength
<1> QED
  BY <1>1, <1>2, Wraps, Zenon

\* A packet without a body.
LEMMA ZeroWraps ==
  ASSUME NEW header \in Byte
  PROVE  Wrapped(<<header>> \o WriteLen(0), header, <<>>)
<1>1. <<>> \in Seq(Byte) /\ Len(<<>>) = 0
  OBVIOUS
<1>2. 0 < MaxLength /\ 0 \in Nat
  BY SMT DEF MaxLength
<1>3. (<<header>> \o WriteLen(0)) \o <<>> = <<header>> \o WriteLen(0)
  <2>1. WriteLen(0) \in Seq(Byte)
    BY <1>2, LengthWritten, Zenon
  <2>2. <<header>> \o WriteLen(0) \in Seq(Byte)
    BY <2>1, FewBytes, Joins, Zenon
  <2> QED
    BY <2>2, ConcatEmptySeq, Zenon
<1>4. Wrapped((<<header>> \o WriteLen(0)) \o <<>>, header, <<>>)
  BY <1>1, <1>2, Wraps, Zenon
<1> QED
  BY <1>3, <1>4, Zenon

\* An identifier and a list behind it.
LEMMA ListBodyIs ==
  ASSUME NEW id \in Word, NEW q \in Seq(Seq(Byte)), NEW lengths \in Seq(Nat), Len(lengths) = Len(q),
         \A i \in 1..Len(q) : lengths[i] = Len(q[i])
  PROVE  /\ WriteU16(id) \o FlattenSeq(q) \in Seq(Byte)
         /\ Len(WriteU16(id) \o FlattenSeq(q)) = 2 + SumOf(lengths)
<1>1. WriteU16(id) \in Seq(Byte) /\ Len(WriteU16(id)) = 2
  BY U16Typed
<1>2. FlattenSeq(q) \in Seq(Byte) /\ Len(FlattenSeq(q)) = SumOf(lengths)
  BY FlattenLength
<1> QED
  BY <1>1, <1>2, Joins

\* A topic filter and the QoS asked for it.
SubscribeBody(r) ==
  WriteU16(r.id) \o FlattenSeq([i \in DOMAIN r.topics |-> WriteString(r.topics[i]) \o <<r.qoss[i]>>])

\* Each filter is followed by a byte, and its length counts it.
LEMMA SubscribeWraps ==
  ASSUME NEW r \in SubscribePackets, NEW room \in Nat, room < MaxLength,
         SerializeSubscribe(r.id, r.topics, r.qoss, room) # <<>>
  PROVE  /\ SubscribeBody(r) \in Seq(Byte)
         /\ Wrapped(SerializeSubscribe(r.id, r.topics, r.qoss, room), Header("SUBSCRIBE", 1, 0, 0),
                    SubscribeBody(r))
<1> DEFINE q == [i \in DOMAIN r.topics |-> WriteString(r.topics[i]) \o <<r.qoss[i]>>]
           lengths == [i \in DOMAIN r.topics |-> Len(r.topics[i]) + 2 + 1]
<1>1. r.id \in Word /\ r.topics \in Seq(String) /\ r.qoss \in Seq(0..1) /\ Len(r.qoss) = Len(r.topics)
  BY DEF SubscribePackets
<1>2. PICK m \in Nat : m = Len(r.topics) /\ DOMAIN r.topics = 1..m
  BY <1>1
<1>3. ASSUME NEW i \in 1..m
      PROVE  /\ WriteString(r.topics[i]) \o <<r.qoss[i]>> \in Seq(Byte)
             /\ Len(r.topics[i]) + 2 + 1 \in Nat
             /\ Len(r.topics[i]) + 2 + 1 = Len(WriteString(r.topics[i]) \o <<r.qoss[i]>>)
  <2>1. r.topics[i] \in String /\ r.qoss[i] \in 0..1
    BY <1>1, <1>2, ElementOfSeq
  <2>2. r.qoss[i] \in Byte
    BY <2>1, ByteIs
  <2>3. <<r.qoss[i]>> \in Seq(Byte) /\ Len(<<r.qoss[i]>>) = 1
    BY <2>2, FewBytes, Zenon
  <2>4. WriteString(r.topics[i]) \in Seq(Byte) /\ Len(WriteString(r.topics[i])) = 2 + Len(r.topics[i])
    BY <2>1, StringTyped, Zenon
  <2>5. /\ WriteString(r.topics[i]) \o <<r.qoss[i]>> \in Seq(Byte)
        /\ Len(WriteString(r.topics[i]) \o <<r.qoss[i]>>) = (2 + Len(r.topics[i])) + 1
    BY <2>3, <2>4, Joins
  <2>6. Len(r.topics[i]) \in Nat
    BY <2>1 DEF String
  <2> QED
    BY <2>5, <2>6
<1>4. q \in Seq(Seq(Byte)) /\ Len(q) = m /\ lengths \in Seq(Nat) /\ Len(lengths) = m
  BY <1>2, <1>3
<1>5. \A i \in 1..m : lengths[i] = Len(q[i])
  BY <1>2, <1>3
<1> HIDE DEF q, lengths
<1>6. /\ WriteU16(r.id) \o FlattenSeq(q) \in Seq(Byte)
      /\ Len(WriteU16(r.id) \o FlattenSeq(q)) = 2 + SumOf(lengths)
  BY <1>1, <1>4, <1>5, ListBodyIs, ZenonT(30)
<1>7. SerializeSubscribe(r.id, r.topics, r.qoss, room)
        = Packet(Header("SUBSCRIBE", 1, 0, 0), 2 + SumOf(lengths), SubscribeBody(r), room)
      /\ SubscribeBody(r) = WriteU16(r.id) \o FlattenSeq(q)
  BY Zenon DEF SerializeSubscribe, SubscribeBody, q, lengths
<1>8. Header("SUBSCRIBE", 1, 0, 0) \in Byte
  BY ClientHeaders, Zenon DEF HeaderSays
<1> QED
  BY <1>6, <1>7, <1>8, PacketWraps, Zenon

\* The filters alone.
UnsubscribeBody(r) ==
  WriteU16(r.id) \o FlattenSeq([i \in DOMAIN r.topics |-> WriteString(r.topics[i])])

\* A list of strings, each behind its length.
Strings(ss) == [i \in DOMAIN ss |-> WriteString(ss[i])]
Lengths(ss) == [i \in DOMAIN ss |-> Len(ss[i]) + 2]

\* Every string of a list takes two bytes more than it has.
LEMMA StringsAre ==
  ASSUME NEW ss \in Seq(String)
  PROVE  /\ Strings(ss) \in Seq(Seq(Byte)) /\ Len(Strings(ss)) = Len(ss) /\ Len(ss) \in Nat
         /\ Lengths(ss) \in Seq(Nat) /\ Len(Lengths(ss)) = Len(ss)
         /\ \A i \in 1..Len(ss) : /\ ss[i] \in String
                                  /\ Strings(ss)[i] = WriteString(ss[i])
                                  /\ Lengths(ss)[i] = Len(ss[i]) + 2
                                  /\ Lengths(ss)[i] = Len(Strings(ss)[i])
<1>2. PICK m \in Nat : m = Len(ss) /\ DOMAIN ss = 1..m
  OBVIOUS
<1>3. ASSUME NEW i \in 1..m
      PROVE  /\ ss[i] \in String /\ WriteString(ss[i]) \in Seq(Byte) /\ Len(ss[i]) + 2 \in Nat
             /\ Len(ss[i]) + 2 = Len(WriteString(ss[i]))
  <2>1. ss[i] \in String
    BY <1>2, ElementOfSeq
  <2>2. WriteString(ss[i]) \in Seq(Byte) /\ Len(WriteString(ss[i])) = 2 + Len(ss[i])
    BY <2>1, StringTyped, Zenon
  <2>3. Len(ss[i]) \in Nat
    BY <2>1 DEF String
  <2> QED
    BY <2>1, <2>2, <2>3
<1>4. Strings(ss) \in Seq(Seq(Byte)) /\ Len(Strings(ss)) = m
  BY <1>2, <1>3 DEF Strings
<1>5. Lengths(ss) \in Seq(Nat) /\ Len(Lengths(ss)) = m
  BY <1>2, <1>3 DEF Lengths
<1>6. \A i \in 1..m : Strings(ss)[i] = WriteString(ss[i]) /\ Lengths(ss)[i] = Len(ss[i]) + 2
  BY <1>2 DEF Strings, Lengths
<1> QED
  BY <1>2, <1>3, <1>4, <1>5, <1>6, Zenon

\* The list of filters and its length.
LEMMA UnsubscribeWraps ==
  ASSUME NEW r \in UnsubscribePackets, NEW room \in Nat, room < MaxLength,
         SerializeUnsubscribe(r.id, r.topics, room) # <<>>
  PROVE  /\ UnsubscribeBody(r) \in Seq(Byte)
         /\ Wrapped(SerializeUnsubscribe(r.id, r.topics, room), Header("UNSUBSCRIBE", 1, 0, 0),
                    UnsubscribeBody(r))
<1>1. r.id \in Word /\ r.topics \in Seq(String)
  BY DEF UnsubscribePackets
<1>2. /\ WriteU16(r.id) \o FlattenSeq(Strings(r.topics)) \in Seq(Byte)
      /\ Len(WriteU16(r.id) \o FlattenSeq(Strings(r.topics))) = 2 + SumOf(Lengths(r.topics))
  BY <1>1, StringsAre, ListBodyIs
<1>3. UnsubscribeBody(r) = WriteU16(r.id) \o FlattenSeq(Strings(r.topics))
  BY Zenon DEF UnsubscribeBody, Strings
<1>4. SerializeUnsubscribe(r.id, r.topics, room)
        = Packet(Header("UNSUBSCRIBE", 1, 0, 0), 2 + SumOf(Lengths(r.topics)), UnsubscribeBody(r), room)
  BY Zenon DEF SerializeUnsubscribe, UnsubscribeBody, Lengths
<1>8. Header("UNSUBSCRIBE", 1, 0, 0) \in Byte
  BY ClientHeaders, Zenon DEF HeaderSays
<1> QED
  BY <1>2, <1>3, <1>4, <1>8, PacketWraps, Zenon

-----------------------------------------------------------------------------
(* Sums of lengths.                                                        *)

\* c is a, of length m, and b, of length n, behind it.
Both(c, a, m, b, n) ==
  Len(c) = m + n /\ \A i \in 1..(m + n) : c[i] = IF i <= m THEN a[i] ELSE b[i - m]

\* Where the parts of a sequence of two are.
LEMMA BothParts ==
  ASSUME NEW V, NEW a \in Seq(V), NEW b \in Seq(V), NEW m \in Nat, m = Len(a), NEW n \in Nat, n = Len(b)
  PROVE  a \o b \in Seq(V) /\ Both(a \o b, a, m, b, n)
<1>1. /\ a \o b \in Seq(V) /\ Len(a \o b) = Len(a) + Len(b)
      /\ \A i \in 1..(Len(a) + Len(b)) : (a \o b)[i] = IF i <= Len(a) THEN a[i] ELSE b[i - Len(a)]
  BY ConcatProperties
<1> QED
  BY <1>1 DEF Both

\* What a sum is of, behind the definition's recursion.
LEMMA SumOfFew ==
  ASSUME NEW a \in Seq(Nat)
  PROVE  /\ SumOf(a) \in Nat
         /\ Len(a) = 0 => SumOf(a) = 0
         /\ Len(a) = 1 => SumOf(a) = a[1]
         /\ Len(a) = 2 => SumOf(a) = a[1] + a[2]
<1>1. PICK m \in Nat : m = Len(a)
  OBVIOUS
<1>2. PICK s \in [0..m -> Nat] :
        s[0] = 0 /\ (\A n \in 1..m : s[n] = s[n - 1] + a[n]) /\ SumOf(a) = s[m]
  BY <1>1, SumIs
<1>3. \A n \in 1..m : a[n] \in Nat
  BY <1>1
<1>4. SumOf(a) \in Nat
  BY <1>2
<1>5. CASE m = 0
  BY <1>1, <1>2, <1>4, <1>5
<1>6. CASE m = 1
  <2>1. 1 \in 1..m /\ 1 - 1 = 0
    BY <1>6
  <2>2. s[1] = s[0] + a[1] /\ a[1] \in Nat
    BY <1>2, <1>3, <2>1
  <2> QED
    BY <1>1, <1>2, <1>4, <1>6, <2>2
<1>7. CASE m = 2
  <2>1. 1 \in 1..m /\ 1 - 1 = 0 /\ 2 \in 1..m /\ 2 - 1 = 1
    BY <1>7
  <2>2. s[1] = s[0] + a[1] /\ a[1] \in Nat /\ s[2] = s[1] + a[2] /\ a[2] \in Nat
    BY <1>2, <1>3, <2>1
  <2> QED
    BY <1>1, <1>2, <1>4, <1>7, <2>2
<1> QED
  BY <1>1, <1>4, <1>5, <1>6, <1>7

\* Lists add up.
LEMMA SumOfBoth ==
  ASSUME NEW a \in Seq(Nat), NEW b \in Seq(Nat)
  PROVE  a \o b \in Seq(Nat) /\ SumOf(a \o b) = SumOf(a) + SumOf(b)
<1>1. PICK m \in Nat, n \in Nat : m = Len(a) /\ n = Len(b)
  OBVIOUS
<1>2. PICK ab \in Seq(Nat) : /\ ab = a \o b /\ Len(ab) = m + n
              /\ \A i \in 1..(m + n) : ab[i] = IF i <= m THEN a[i] ELSE b[i - m]
  <2>1. a \o b \in Seq(Nat) /\ Both(a \o b, a, m, b, n)
    BY <1>1, BothParts
  <2> QED
    BY <2>1, Zenon DEF Both
<1>3. PICK s \in [0..m -> Nat] :
        s[0] = 0 /\ (\A i \in 1..m : s[i] = s[i - 1] + a[i]) /\ SumOf(a) = s[m]
  BY <1>1, SumIs
<1>4. PICK t \in [0..n -> Nat] :
        t[0] = 0 /\ (\A i \in 1..n : t[i] = t[i - 1] + b[i]) /\ SumOf(b) = t[n]
  BY <1>1, SumIs
<1>5. PICK u \in [0..(m + n) -> Nat] :
        u[0] = 0 /\ (\A i \in 1..(m + n) : u[i] = u[i - 1] + ab[i]) /\ SumOf(ab) = u[m + n]
  BY <1>2, SumIs
<1> DEFINE T == {i \in Nat : /\ i \in 0..m => u[i] = s[i]
                             /\ i \in m..(m + n) => u[i] = s[m] + t[i - m]}
<1>6. ASSUME NEW i \in Nat, \A j \in Nat : j < i => j \in T PROVE i \in T
  <2>1. ASSUME i \in 0..m PROVE u[i] = s[i]
    <3>1. CASE i = 0
      BY <1>3, <1>5, <3>1
    <3>2. CASE i # 0
      <4>1. i \in 1..m /\ i \in 1..(m + n) /\ i <= m /\ i - 1 \in 0..m /\ i - 1 \in Nat /\ i - 1 < i
        BY <2>1, <3>2
      <4>2. u[i - 1] = s[i - 1]
        BY <1>6, <4>1
      <4>3. ab[i] = a[i]
        BY <1>2, <4>1
      <4> QED
        BY <1>3, <1>5, <4>1, <4>2, <4>3
    <3> QED
      BY <3>1, <3>2
  <2>2. ASSUME i \in m..(m + n) PROVE u[i] = s[m] + t[i - m]
    <3>1. CASE i = m
      <4>1. i \in 0..m /\ i - m = 0 /\ s[m] \in Nat
        BY <3>1
      <4>2. u[i] = s[i]
        BY <2>1, <4>1
      <4> QED
        BY <1>4, <3>1, <4>1, <4>2
    <3>2. CASE i # m
      <4>1. /\ i \in 1..(m + n) /\ ~(i <= m) /\ i - m \in 1..n /\ i - 1 \in m..(m + n)
            /\ i - 1 \in Nat /\ i - 1 < i /\ (i - 1) - m = (i - m) - 1 /\ (i - m) - 1 \in 0..n
        BY <2>2, <3>2
      <4>2. u[i - 1] = s[m] + t[(i - m) - 1]
        BY <1>6, <4>1
      <4>3. ab[i] = b[i - m] /\ b[i - m] \in Nat
        BY <1>1, <1>2, <4>1
      <4>4. u[i] = (s[m] + t[(i - m) - 1]) + b[i - m]
        BY <1>5, <4>1, <4>2, <4>3
      <4>5. t[i - m] = t[(i - m) - 1] + b[i - m]
        BY <1>4, <4>1
      <4>6. s[m] \in Nat /\ t[(i - m) - 1] \in Nat
        BY <4>1
      <4>7. s[m] + t[i - m] = (s[m] + t[(i - m) - 1]) + b[i - m]
        <5>1. PICK x \in Nat, y \in Nat, z \in Nat :
                x = s[m] /\ y = t[(i - m) - 1] /\ z = b[i - m]
          BY <4>3, <4>6, Zenon
        <5>2. x + (y + z) = (x + y) + z
          OBVIOUS
        <5> QED
          BY <4>5, <5>1, <5>2, Zenon
      <4> QED
        BY <4>4, <4>7, Zenon
    <3> QED
      BY <3>1, <3>2
  <2> QED
    BY <2>1, <2>2
<1> HIDE DEF T
<1>7. Nat \subseteq T
  BY <1>6, Induction
<1>8. m + n \in Nat /\ m + n \in m..(m + n) /\ (m + n) - m = n
  OBVIOUS
<1>9. u[m + n] = s[m] + t[n]
  <2>1. m + n \in T
    BY <1>7, <1>8
  <2> QED
    BY <1>8, <2>1 DEF T
<1> QED
  BY <1>2, <1>3, <1>4, <1>5, <1>9

\* The lengths of a list in two parts.
LEMMA LengthsOfBoth ==
  ASSUME NEW a \in Seq(String), NEW b \in Seq(String)
  PROVE  /\ a \o b \in Seq(String)
         /\ SumOf(Lengths(a)) \in Nat /\ SumOf(Lengths(b)) \in Nat
         /\ SumOf(Lengths(a \o b)) = SumOf(Lengths(a)) + SumOf(Lengths(b))
<1>1. PICK m \in Nat, n \in Nat : m = Len(a) /\ n = Len(b)
  OBVIOUS
<1>2. PICK ab \in Seq(String) : /\ ab = a \o b /\ Len(ab) = m + n
              /\ \A i \in 1..(m + n) : ab[i] = IF i <= m THEN a[i] ELSE b[i - m]
  <2>1. a \o b \in Seq(String) /\ Both(a \o b, a, m, b, n)
    BY <1>1, BothParts
  <2> QED
    BY <2>1, Zenon DEF Both
<1>3. PICK la \in Seq(Nat) : la = Lengths(a) /\ Len(la) = m /\ \A i \in 1..m : la[i] = Len(a[i]) + 2
  BY <1>1, StringsAre
<1>4. PICK lb \in Seq(Nat) : lb = Lengths(b) /\ Len(lb) = n /\ \A i \in 1..n : lb[i] = Len(b[i]) + 2
  BY <1>1, StringsAre
<1>5. PICK l \in Seq(Nat) : l = Lengths(ab) /\ Len(l) = m + n /\ \A i \in 1..(m + n) : l[i] = Len(ab[i]) + 2
  <2>1. ab \in Seq(String) /\ Len(ab) = m + n
    BY <1>2, Zenon
  <2>2. /\ Lengths(ab) \in Seq(Nat) /\ Len(Lengths(ab)) = Len(ab)
        /\ \A i \in 1..Len(ab) : Lengths(ab)[i] = Len(ab[i]) + 2
    BY <2>1, StringsAre, Zenon
  <2> QED
    BY <2>1, <2>2, Zenon
<1>6. l = la \o lb
  <2>1. PICK k \in Seq(Nat) : /\ k = la \o lb /\ Len(k) = m + n
                              /\ \A i \in 1..(m + n) : k[i] = IF i <= m THEN la[i] ELSE lb[i - m]
    <3>1. la \o lb \in Seq(Nat) /\ Both(la \o lb, la, m, lb, n)
      BY <1>3, <1>4, BothParts
    <3> QED
      BY <3>1, Zenon DEF Both
  <2>2. ASSUME NEW i \in 1..(m + n) PROVE k[i] = l[i]
    <3>1. CASE i <= m
      <4>1. i \in 1..m
        BY <3>1
      <4>2. ab[i] = a[i] /\ k[i] = la[i]
        BY <1>2, <2>1, <3>1, Zenon
      <4> QED
        BY <1>3, <1>5, <4>1, <4>2, Zenon
    <3>2. CASE ~(i <= m)
      <4>1. i - m \in 1..n
        BY <3>2
      <4>2. ab[i] = b[i - m] /\ k[i] = lb[i - m]
        BY <1>2, <2>1, <3>2, Zenon
      <4>3. lb[i - m] = Len(b[i - m]) + 2 /\ l[i] = Len(ab[i]) + 2
        BY <1>4, <1>5, <4>1, Zenon
      <4> QED
        BY <4>2, <4>3, Zenon
    <3> QED
      BY <3>1, <3>2
  <2>3. k = l
    BY <1>5, <2>1, <2>2, SeqEqual
  <2> QED
    BY <2>1, <2>3
<1> QED
  BY <1>2, <1>3, <1>4, <1>5, <1>6, SumOfBoth, SumOfFew

-----------------------------------------------------------------------------
(* A CONNECT.                                                              *)

ConnectFields(c) == <<c.clientID>> \o c.will \o c.username \o c.password

\* The lengths of a short list of strings.
LEMMA LengthsOfFew ==
  ASSUME NEW ss \in Seq(String)
  PROVE  /\ SumOf(Lengths(ss)) \in Nat
         /\ Len(ss) = 0 => SumOf(Lengths(ss)) = 0
         /\ Len(ss) = 1 => SumOf(Lengths(ss)) = Len(ss[1]) + 2
         /\ Len(ss) = 2 => SumOf(Lengths(ss)) = (Len(ss[1]) + 2) + (Len(ss[2]) + 2)
<1>1. PICK l \in Seq(Nat) : l = Lengths(ss) /\ Len(l) = Len(ss)
                            /\ \A i \in 1..Len(ss) : l[i] = Len(ss[i]) + 2
  BY StringsAre, Zenon
<1>2. /\ SumOf(l) \in Nat
      /\ Len(l) = 0 => SumOf(l) = 0
      /\ Len(l) = 1 => SumOf(l) = l[1]
      /\ Len(l) = 2 => SumOf(l) = l[1] + l[2]
  BY SumOfFew, Zenon
<1>3. Len(ss) = 1 => l[1] = Len(ss[1]) + 2
  BY <1>1
<1>4. Len(ss) = 2 => l[1] = Len(ss[1]) + 2 /\ l[2] = Len(ss[2]) + 2
  BY <1>1
<1> QED
  BY <1>1, <1>2, <1>3, <1>4, Zenon

\* The fields' types, and which of them there are.
LEMMA ConnectTyped ==
  ASSUME NEW r \in ConnectPackets
  PROVE  /\ r.clientID \in String /\ r.will \in Seq(String) /\ r.username \in Seq(String)
         /\ r.password \in Seq(String) /\ r.keepAlive \in Word /\ r.cleanSession \in BOOLEAN
         /\ r.willQos \in 0..1 /\ r.willRetained \in 0..1
         /\ (r.will = <<>> /\ Len(r.will) = 0) \/ (r.will # <<>> /\ Len(r.will) = 2)
         /\ (r.username = <<>> /\ Len(r.username) = 0) \/ (r.username # <<>> /\ Len(r.username) = 1)
         /\ (r.password = <<>> /\ Len(r.password) = 0) \/ (r.password # <<>> /\ Len(r.password) = 1)
<1>1. /\ r.clientID \in String /\ r.will \in Seq(String) /\ r.username \in Seq(String)
      /\ r.password \in Seq(String) /\ r.keepAlive \in Word /\ r.cleanSession \in BOOLEAN
      /\ r.willQos \in 0..1 /\ r.willRetained \in 0..1
      /\ Len(r.will) \in {0, 2} /\ Len(r.username) <= 1 /\ Len(r.password) <= 1
  BY DEF ConnectPackets
<1>2. ASSUME NEW s \in Seq(String) PROVE Len(s) \in Nat /\ (s = <<>> <=> Len(s) = 0)
  BY EmptySeq
<1>3. (r.will = <<>> /\ Len(r.will) = 0) \/ (r.will # <<>> /\ Len(r.will) = 2)
  BY <1>1, <1>2
<1>4. (r.username = <<>> /\ Len(r.username) = 0) \/ (r.username # <<>> /\ Len(r.username) = 1)
  <2>1. PICK u \in Seq(String), n \in Nat : u = r.username /\ n = Len(u) /\ n <= 1 /\ (u = <<>> <=> n = 0)
    BY <1>1, <1>2, Zenon
  <2>2. \A k \in Nat : k <= 1 => k = 0 \/ k = 1
    OBVIOUS
  <2>3. 0 # 1
    OBVIOUS
  <2> QED
    BY <2>1, <2>2, <2>3, Zenon
<1>5. (r.password = <<>> /\ Len(r.password) = 0) \/ (r.password # <<>> /\ Len(r.password) = 1)
  <2>1. PICK u \in Seq(String), n \in Nat : u = r.password /\ n = Len(u) /\ n <= 1 /\ (u = <<>> <=> n = 0)
    BY <1>1, <1>2, Zenon
  <2>2. \A k \in Nat : k <= 1 => k = 0 \/ k = 1
    OBVIOUS
  <2>3. 0 # 1
    OBVIOUS
  <2> QED
    BY <2>1, <2>2, <2>3, Zenon
<1> QED
  BY <1>1, <1>3, <1>4, <1>5, Zenon

\* The length that is announced is the length of the fields.
LEMMA ConnectLengthIs ==
  ASSUME NEW r \in ConnectPackets
  PROVE  /\ ConnectFields(r) \in Seq(String) /\ SumOf(Lengths(ConnectFields(r))) \in Nat
         /\ ConnectLength(r) = 10 + SumOf(Lengths(ConnectFields(r)))
<1>1. PICK a \in Seq(String), b \in Seq(String), c \in Seq(String), d \in Seq(String) :
        a = <<r.clientID>> /\ b = r.will /\ c = r.username /\ d = r.password
  <2>1. r.clientID \in String /\ r.will \in Seq(String) /\ r.username \in Seq(String) /\ r.password \in Seq(String)
    BY ConnectTyped, Zenon
  <2>2. <<r.clientID>> \in Seq(String)
    BY <2>1
  <2> QED
    BY <2>1, <2>2, Zenon
<1>2. PICK x \in Nat, y \in Nat, z \in Nat, w \in Nat :
        /\ x = SumOf(Lengths(a)) /\ y = SumOf(Lengths(b)) /\ z = SumOf(Lengths(c)) /\ w = SumOf(Lengths(d))
  BY LengthsOfFew, Zenon
<1>3. /\ ConnectFields(r) \in Seq(String) /\ SumOf(Lengths(ConnectFields(r))) \in Nat
      /\ SumOf(Lengths(ConnectFields(r))) = ((x + y) + z) + w
  <2>1. a \o b \in Seq(String) /\ SumOf(Lengths(a \o b)) = x + y
    BY <1>2, LengthsOfBoth, Zenon
  <2>2. (a \o b) \o c \in Seq(String) /\ SumOf(Lengths((a \o b) \o c)) = (x + y) + z
    BY <1>2, <2>1, LengthsOfBoth, Zenon
  <2>3. ((a \o b) \o c) \o d \in Seq(String) /\ SumOf(Lengths(((a \o b) \o c) \o d)) = ((x + y) + z) + w
    BY <1>2, <2>2, LengthsOfBoth, Zenon
  <2>4. ConnectFields(r) = ((a \o b) \o c) \o d
    BY <1>1, Zenon DEF ConnectFields
  <2>5. ((x + y) + z) + w \in Nat
    OBVIOUS
  <2> QED
    BY <2>3, <2>4, <2>5, Zenon
<1>4. x = Len(r.clientID) + 2
  <2>1. Len(a) = 1 /\ a[1] = r.clientID
    BY <1>1
  <2> QED
    BY <1>2, <2>1, LengthsOfFew, Zenon
<1>5. y = IF r.will # <<>> THEN Len(r.will[1]) + 2 + Len(r.will[2]) + 2 ELSE 0
  <2>1. CASE r.will # <<>>
    <3>1. Len(b) = 2
      BY <1>1, <2>1, ConnectTyped, Zenon
    <3>2. y = (Len(b[1]) + 2) + (Len(b[2]) + 2)
      BY <1>2, <3>1, LengthsOfFew, Zenon
    <3>3. b[1] \in String /\ b[2] \in String
      <4>1. 1 \in 1..Len(b) /\ 2 \in 1..Len(b)
        BY <3>1
      <4> QED
        BY <4>1, ElementOfSeq
    <3>4. Len(b[1]) \in Nat /\ Len(b[2]) \in Nat
      BY <3>3 DEF String
    <3>5. y = Len(b[1]) + 2 + Len(b[2]) + 2
      <4>1. PICK i \in Nat, j \in Nat : i = Len(b[1]) /\ j = Len(b[2])
        BY <3>4, Zenon
      <4>2. (i + 2) + (j + 2) = i + 2 + j + 2
        OBVIOUS
      <4> QED
        BY <3>2, <4>1, <4>2, Zenon
    <3> QED
      BY <1>1, <2>1, <3>5, Zenon
  <2>2. CASE r.will = <<>>
    <3>1. Len(b) = 0
      BY <1>1, <2>2, ConnectTyped, Zenon
    <3> QED
      BY <1>2, <2>2, <3>1, LengthsOfFew, Zenon
  <2> QED
    BY <2>1, <2>2, Zenon
<1>6. z = IF r.username # <<>> THEN Len(r.username[1]) + 2 ELSE 0
  <2>1. CASE r.username # <<>>
    <3>1. Len(c) = 1
      BY <1>1, <2>1, ConnectTyped, Zenon
    <3> QED
      BY <1>1, <1>2, <2>1, <3>1, LengthsOfFew, Zenon
  <2>2. CASE r.username = <<>>
    <3>1. Len(c) = 0
      BY <1>1, <2>2, ConnectTyped, Zenon
    <3> QED
      BY <1>2, <2>2, <3>1, LengthsOfFew, Zenon
  <2> QED
    BY <2>1, <2>2, Zenon
<1>7. w = IF r.password # <<>> THEN Len(r.password[1]) + 2 ELSE 0
  <2>1. CASE r.password # <<>>
    <3>1. Len(d) = 1
      BY <1>1, <2>1, ConnectTyped, Zenon
    <3> QED
      BY <1>1, <1>2, <2>1, <3>1, LengthsOfFew, Zenon
  <2>2. CASE r.password = <<>>
    <3>1. Len(d) = 0
      BY <1>1, <2>2, ConnectTyped, Zenon
    <3> QED
      BY <1>2, <2>2, <3>1, LengthsOfFew, Zenon
  <2> QED
    BY <2>1, <2>2, Zenon
<1>8. PICK k \in Nat : k = Len(r.clientID)
  <2>1. r.clientID \in String
    BY ConnectTyped, Zenon
  <2>2. Len(r.clientID) \in Nat
    BY <2>1 DEF String, Word
  <2> QED
    BY <2>2, Zenon
<1>9. ConnectLength(r) = 10 + k + 2 + y + z + w
  BY <1>5, <1>6, <1>7, <1>8, Zenon DEF ConnectLength
<1>10. 10 + k + 2 + y + z + w = 10 + ((((k + 2) + y) + z) + w)
  OBVIOUS
<1> QED
  BY <1>3, <1>4, <1>8, <1>9, <1>10, Zenon

\* The flags byte has a bit for each optional field.
LEMMA FlagsRead ==
  ASSUME NEW r \in ConnectPackets
  PROVE  /\ ConnectFlags(r) \in Byte
         /\ (ConnectFlags(r) \div 4) % 2 = Len(r.will) \div 2
         /\ (ConnectFlags(r) \div 64) % 2 = Len(r.password)
         /\ (ConnectFlags(r) \div 128) % 2 = Len(r.username)
         /\ r.cleanSession <=> (ConnectFlags(r) \div 2) % 2 = 1
<1>1. PICK s \in 0..1 : /\ s = (IF r.cleanSession THEN 1 ELSE 0) /\ (r.cleanSession <=> s = 1)
                        /\ (IF r.cleanSession THEN 2 ELSE 0) = 2 * s
  OBVIOUS
<1>2. PICK w \in 0..1, q \in 0..1, t \in 0..1 :
        /\ w = Len(r.will) \div 2
        /\ (IF r.will # <<>> THEN 4 + 8 * r.willQos + 32 * r.willRetained ELSE 0) = 4 * w + 8 * q + 32 * t
  <2>1. r.willQos \in 0..1 /\ r.willRetained \in 0..1
    BY ConnectTyped, Zenon
  <2>2. CASE r.will # <<>> /\ Len(r.will) = 2
    <3>1. Len(r.will) \div 2 = 1 /\ 1 \in 0..1
      BY <2>2
    <3>2. 4 + 8 * r.willQos + 32 * r.willRetained = 4 * 1 + 8 * r.willQos + 32 * r.willRetained
      OBVIOUS
    <3> QED
      BY <2>1, <2>2, <3>1, <3>2, Zenon
  <2>3. CASE r.will = <<>> /\ Len(r.will) = 0
    <3>1. Len(r.will) \div 2 = 0 /\ 0 \in 0..1
      BY <2>3
    <3>2. 0 = 4 * 0 + 8 * 0 + 32 * 0
      OBVIOUS
    <3> QED
      BY <2>3, <3>1, <3>2, Zenon
  <2> QED
    BY <2>2, <2>3, ConnectTyped, Zenon
<1>3. PICK p \in 0..1 : p = Len(r.password) /\ (IF r.password # <<>> THEN 64 ELSE 0) = 64 * p
  <2>1. (r.password = <<>> /\ Len(r.password) = 0) \/ (r.password # <<>> /\ Len(r.password) = 1)
    BY ConnectTyped, Zenon
  <2> QED
    BY <2>1
<1>4. PICK u \in 0..1 : u = Len(r.username) /\ (IF r.username # <<>> THEN 128 ELSE 0) = 128 * u
  <2>1. (r.username = <<>> /\ Len(r.username) = 0) \/ (r.username # <<>> /\ Len(r.username) = 1)
    BY ConnectTyped, Zenon
  <2> QED
    BY <2>1
<1>5. PICK f \in Nat : f = ConnectFlags(r) /\ f = 2 * s + (4 * w + 8 * q + 32 * t) + 64 * p + 128 * u
  <2>1. ConnectFlags(r) = 2 * s + (4 * w + 8 * q + 32 * t) + 64 * p + 128 * u
    <3>1. ConnectFlags(r) = (IF r.cleanSession THEN 2 ELSE 0)
            + (IF r.will # <<>> THEN 4 + 8 * r.willQos + 32 * r.willRetained ELSE 0)
            + (IF r.password # <<>> THEN 64 ELSE 0) + (IF r.username # <<>> THEN 128 ELSE 0)
      BY DEF ConnectFlags
    <3>2. @ = 2 * s + (4 * w + 8 * q + 32 * t) + (IF r.password # <<>> THEN 64 ELSE 0)
                + (IF r.username # <<>> THEN 128 ELSE 0)
      BY <1>1, <1>2, ZenonT(30)
    <3>3. @ = 2 * s + (4 * w + 8 * q + 32 * t) + 64 * p + 128 * u
      BY <1>3, <1>4, Zenon
    <3> QED
      BY <3>1, <3>2, <3>3, ZenonT(30)
  <2>2. 2 * s + (4 * w + 8 * q + 32 * t) + 64 * p + 128 * u \in Nat
    OBVIOUS
  <2> QED
    BY <2>1, <2>2, Zenon
<1>6. /\ f <= 255 /\ (f \div 4) % 2 = w /\ (f \div 64) % 2 = p /\ (f \div 128) % 2 = u /\ (f \div 2) % 2 = s
  BY <1>5
<1>7. f \in Byte
  BY <1>6, ByteIs
<1> QED
  BY <1>1, <1>2, <1>3, <1>4, <1>5, <1>6, <1>7, Zenon

-----------------------------------------------------------------------------
(* The body of a CONNECT.                                                  *)

\* The fixed fields of a CONNECT, and the strings behind them.
ConnectHead(r) == WriteString(<<77, 81, 84, 84>>) \o <<4, ConnectFlags(r)>> \o WriteU16(r.keepAlive)
ConnectBody(r) == ConnectHead(r) \o FlattenSeq(Strings(ConnectFields(r)))

\* The flags are the eighth of ten bytes.
LEMMA ConnectHeadIs ==
  ASSUME NEW r \in ConnectPackets
  PROVE  /\ ConnectHead(r) \in Seq(Byte) /\ Len(ConnectHead(r)) = 10
         /\ ConnectHead(r)[8] = ConnectFlags(r)
<1>1. PICK a \in Seq(Byte) : a = WriteString(<<77, 81, 84, 84>>) /\ Len(a) = 6
  <2>1. 77 \in Byte /\ 81 \in Byte /\ 84 \in Byte
    BY ByteIs
  <2>2. <<77, 81, 84, 84>> \in Seq(Byte) /\ Len(<<77, 81, 84, 84>>) = 4
    BY <2>1
  <2>3. 4 \in Word
    BY SMT DEF Word
  <2>4. <<77, 81, 84, 84>> \in String
    BY <2>2, <2>3, Zenon DEF String
  <2>5. /\ WriteString(<<77, 81, 84, 84>>) \in Seq(Byte)
        /\ Len(WriteString(<<77, 81, 84, 84>>)) = 2 + Len(<<77, 81, 84, 84>>)
    BY <2>4, StringTyped, Zenon
  <2> QED
    BY <2>2, <2>5
<1>2. PICK b \in Seq(Byte) : b = <<4, ConnectFlags(r)>> /\ Len(b) = 2 /\ b[2] = ConnectFlags(r)
  <2>1. 4 \in Byte
    BY ByteIs
  <2>2. PICK f \in Byte : f = ConnectFlags(r)
    BY FlagsRead, Zenon
  <2>3. <<4, f>> \in Seq(Byte) /\ Len(<<4, f>>) = 2 /\ <<4, f>>[2] = f
    BY <2>1
  <2> QED
    BY <2>2, <2>3, Zenon
<1>3. PICK c \in Seq(Byte) : c = WriteU16(r.keepAlive) /\ Len(c) = 2
  BY ConnectTyped, U16Typed, Zenon
<1>4. PICK ab \in Seq(Byte) : ab = a \o b /\ Len(ab) = 8 /\ ab[8] = b[2]
  <2>1. a \o b \in Seq(Byte) /\ Both(a \o b, a, 6, b, 2)
    <3>1. 6 \in Nat /\ 2 \in Nat
      OBVIOUS
    <3> QED
      BY <1>1, <1>2, <3>1, BothParts, ZenonT(30)
  <2>2. 8 \in 1..(6 + 2) /\ ~(8 <= 6) /\ 8 - 6 = 2 /\ 6 + 2 = 8
    OBVIOUS
  <2> QED
    BY <2>1, <2>2 DEF Both
<1>5. PICK abc \in Seq(Byte) : abc = ab \o c /\ Len(abc) = 10 /\ abc[8] = ab[8]
  <2>1. ab \o c \in Seq(Byte) /\ Both(ab \o c, ab, 8, c, 2)
    <3>1. 8 \in Nat /\ 2 \in Nat
      OBVIOUS
    <3> QED
      BY <1>3, <1>4, <3>1, BothParts, Zenon
  <2>2. 8 \in 1..(8 + 2) /\ 8 <= 8 /\ 8 + 2 = 10
    OBVIOUS
  <2> QED
    BY <2>1, <2>2 DEF Both
<1>6. ConnectHead(r) = abc
  BY <1>1, <1>2, <1>3, <1>4, <1>5, Zenon DEF ConnectHead
<1> QED
  BY <1>2, <1>4, <1>5, <1>6, Zenon

\* The body of a CONNECT is as long as is announced.
LEMMA ConnectBodyIs ==
  ASSUME NEW r \in ConnectPackets
  PROVE  /\ FlattenSeq(Strings(ConnectFields(r))) \in Seq(Byte)
         /\ ConnectBody(r) \in Seq(Byte) /\ Len(ConnectBody(r)) = ConnectLength(r)
<1>1. /\ ConnectFields(r) \in Seq(String) /\ SumOf(Lengths(ConnectFields(r))) \in Nat
      /\ ConnectLength(r) = 10 + SumOf(Lengths(ConnectFields(r)))
  BY ConnectLengthIs, Zenon
<1>2. PICK q \in Seq(Seq(Byte)), l \in Seq(Nat) :
        /\ q = Strings(ConnectFields(r)) /\ l = Lengths(ConnectFields(r)) /\ Len(l) = Len(q)
        /\ \A i \in 1..Len(q) : l[i] = Len(q[i])
  <2>1. PICK ss \in Seq(String) : ss = ConnectFields(r)
    BY <1>1, Zenon
  <2>2. /\ Strings(ss) \in Seq(Seq(Byte)) /\ Len(Strings(ss)) = Len(ss)
        /\ Lengths(ss) \in Seq(Nat) /\ Len(Lengths(ss)) = Len(ss)
        /\ \A i \in 1..Len(ss) : Lengths(ss)[i] = Len(Strings(ss)[i])
    BY StringsAre, Zenon
  <2> QED
    BY <2>1, <2>2, Zenon
<1>3. FlattenSeq(q) \in Seq(Byte) /\ Len(FlattenSeq(q)) = SumOf(l)
  BY <1>2, FlattenLength, Zenon
<1>4. ConnectHead(r) \in Seq(Byte) /\ Len(ConnectHead(r)) = 10
  BY ConnectHeadIs, Zenon
<1>5. /\ ConnectHead(r) \o FlattenSeq(q) \in Seq(Byte)
      /\ Len(ConnectHead(r) \o FlattenSeq(q)) = Len(ConnectHead(r)) + Len(FlattenSeq(q))
  BY <1>3, <1>4, Joins, Zenon
<1> QED
  BY <1>1, <1>2, <1>3, <1>4, <1>5, Zenon DEF ConnectBody

\* A CONNECT that fits is wrapped as the others.
LEMMA ConnectWraps ==
  ASSUME NEW r \in ConnectPackets, NEW room \in Nat, room < MaxLength, SerializeConnect(r, room) # <<>>
  PROVE  Wrapped(SerializeConnect(r, room), Header("CONNECT", 0, 0, 0), ConnectBody(r))
<1>1. Header("CONNECT", 0, 0, 0) \in Byte
  BY ClientHeaders, Zenon DEF HeaderSays
<1>2. SerializeConnect(r, room) = Packet(Header("CONNECT", 0, 0, 0), ConnectLength(r), ConnectBody(r), room)
  BY Zenon DEF SerializeConnect, ConnectBody, ConnectHead, ConnectFields, Strings
<1> QED
  BY <1>1, <1>2, ConnectBodyIs, PacketWraps, Zenon

\* Where a CONNECT's flags and strings are in its packet.
LEMMA ConnectPlaces ==
  ASSUME NEW r \in ConnectPackets, NEW room \in Nat, room < MaxLength, SerializeConnect(r, room) # <<>>,
         NEW p, p = SerializeConnect(r, room)
  PROVE  /\ p \in Seq(Byte) /\ Start(p) \in Places
         /\ p[Start(p) + 7] = ConnectFlags(r)
         /\ Start(p) + 10 \in Places
         /\ Holds(p, Start(p) + 10, FlattenSeq(Strings(ConnectFields(r))))
         /\ Start(p) + 10 + Len(FlattenSeq(Strings(ConnectFields(r)))) = Len(p) + 1
<1>1. PICK from \in Places :
        /\ from = Start(p) /\ p \in Seq(Byte) /\ Holds(p, from, ConnectBody(r))
        /\ from + Len(ConnectBody(r)) = Len(p) + 1
  BY ConnectWraps, Zenon DEF Wrapped
<1>2. PICK head \in Seq(Byte), t \in Seq(Byte) :
        /\ head = ConnectHead(r) /\ Len(head) = 10 /\ head[8] = ConnectFlags(r)
        /\ t = FlattenSeq(Strings(ConnectFields(r))) /\ ConnectBody(r) = head \o t
  BY ConnectHeadIs, ConnectBodyIs, Zenon DEF ConnectBody
<1>3. Len(head \o t) = 10 + Len(t)
  BY <1>2, Joins, Zenon
<1>4. /\ Holds(p, from, head) /\ Holds(p, from + 10, t) /\ from + 10 \in Places
  <2>1. Holds(p, from, head \o t)
    BY <1>1, <1>2, Zenon
  <2>2. Holds(p, from, head) /\ Holds(p, from + Len(head), t) /\ from + Len(head) \in Places
    BY <1>1, <2>1, HoldsParts, Zenon
  <2> QED
    BY <1>2, <2>2, Zenon
<1>5. p[from + 7] = ConnectFlags(r)
  <2>1. 8 \in 1..Len(head) /\ from + 8 - 1 = from + 7
    BY <1>2 DEF Places
  <2>2. \A i \in 1..Len(head) : p[from + i - 1] = head[i]
    BY <1>4, Zenon DEF Holds
  <2> QED
    BY <1>2, <2>1, <2>2, Zenon
<1>6. from + 10 + Len(t) = Len(p) + 1
  <2>1. PICK k \in Nat : k = Len(t)
    BY LenProperties, Zenon
  <2>2. from + (10 + k) = from + 10 + k
    BY DEF Places
  <2> QED
    BY <1>1, <1>2, <1>3, <2>1, <2>2, Zenon
<1> QED
  BY <1>1, <1>2, <1>4, <1>5, <1>6, Zenon

-----------------------------------------------------------------------------
(* All of them.                                                            *)

\* Whatever the client sends, its packet ends where its length says, and is no longer
\* than was asked for.
THEOREM ClientWraps ==
  ASSUME NEW r \in ClientPackets, NEW room \in Nat, room < MaxLength, Serialize(r, room) # <<>>
  PROVE  \E header \in Byte, body \in Seq(Byte) : Wrapped(Serialize(r, room), header, body)
<1>1. CASE r \in ConnectPackets
  <2>1. Serialize(r, room) = SerializeConnect(r, room)
    BY <1>1 DEF ConnectPackets, Serialize
  <2>2. Header("CONNECT", 0, 0, 0) \in Byte
    BY ClientHeaders, Zenon DEF HeaderSays
  <2> QED
    BY <1>1, <2>1, <2>2, ConnectWraps, ConnectBodyIs, Zenon
<1>2. CASE r \in PublishPackets
  <2>1. Serialize(r, room) = SerializePublish(r, room)
    BY <1>2 DEF PublishPackets, Serialize
  <2>2. Wrapped(Serialize(r, room), Header("PUBLISH", r.qos, r.dup, r.retained), PublishBody(r))
    BY <1>2, <2>1, PublishWraps, Zenon
  <2>3. Header("PUBLISH", r.qos, r.dup, r.retained) \in Byte
    BY <1>2, <2>1, PublishWraps, Zenon DEF HeaderSays
  <2> QED
    BY <1>2, <2>2, <2>3, PublishBodyIs, Zenon
<1>3. CASE r \in SubscribePackets
  <2>1. Serialize(r, room) = SerializeSubscribe(r.id, r.topics, r.qoss, room)
    BY <1>3 DEF SubscribePackets, Serialize
  <2>2. Header("SUBSCRIBE", 1, 0, 0) \in Byte
    BY ClientHeaders, Zenon DEF HeaderSays
  <2> QED
    BY <1>3, <2>1, <2>2, SubscribeWraps, Zenon
<1>4. CASE r \in UnsubscribePackets
  <2>1. Serialize(r, room) = SerializeUnsubscribe(r.id, r.topics, room)
    BY <1>4 DEF UnsubscribePackets, Serialize
  <2>2. Header("UNSUBSCRIBE", 1, 0, 0) \in Byte
    BY ClientHeaders, Zenon DEF HeaderSays
  <2> QED
    BY <1>4, <2>1, <2>2, UnsubscribeWraps, Zenon
<1>5. CASE r \in [type : {"PUBACK"}, id : Word]
  <2>1. Serialize(r, room) = SerializeAck("PUBACK", 0, r.id, room) /\ r.id \in Word
    BY <1>5 DEF Serialize
  <2>2. Header("PUBACK", 0, 0, 0) \in Byte
    BY ClientHeaders, Zenon DEF HeaderSays
  <2>3. SerializeAck("PUBACK", 0, r.id, room)
          = IF room < 4 THEN <<>> ELSE <<Header("PUBACK", 0, 0, 0)>> \o WriteLen(2) \o WriteU16(r.id)
    BY DEF SerializeAck
  <2>4. Serialize(r, room) = <<Header("PUBACK", 0, 0, 0)>> \o WriteLen(2) \o WriteU16(r.id)
    BY <2>1, <2>3, Zenon
  <2>5. WriteU16(r.id) \in Seq(Byte)
    BY <2>1, U16Typed
  <2> QED
    BY <2>1, <2>2, <2>4, <2>5, AckWraps, Zenon
<1>6. CASE r \in [type : {"PINGREQ", "DISCONNECT"}]
  <2>1. Serialize(r, room) = SerializeZero(r.type, room) /\ (r.type = "PINGREQ" \/ r.type = "DISCONNECT")
    BY <1>6 DEF Serialize
  <2>2. Header(r.type, 0, 0, 0) \in Byte
    BY <2>1, ClientHeaders, Zenon DEF HeaderSays
  <2>3. Serialize(r, room) = <<Header(r.type, 0, 0, 0)>> \o WriteLen(0)
    BY <2>1, Zenon DEF SerializeZero
  <2>4. <<>> \in Seq(Byte)
    OBVIOUS
  <2> QED
    BY <2>2, <2>3, <2>4, ZeroWraps, Zenon
<1> QED
  BY <1>1, <1>2, <1>3, <1>4, <1>5, <1>6 DEF ClientPackets

-----------------------------------------------------------------------------
(* The loop of the topic match.                                            *)

\* A "+" takes the bytes up to the next separator, or to the end.
LEMMA LevelEndIs ==
  ASSUME NEW name \in Seq(Byte), NEW n \in 1..Len(name)
  PROVE  /\ LevelEnd(name, n) \in n..Len(name)
         /\ \A j \in (n + 1)..LevelEnd(name, n) : name[j] # Slash
         /\ LevelEnd(name, n) = Len(name) \/ name[LevelEnd(name, n) + 1] = Slash
<1>1. PICK m \in Nat : m = Len(name)
  OBVIOUS
<1> DEFINE S == {k \in n..m : \A j \in (n + 1)..k : name[j] # Slash}
           T == {i \in Nat : \E k \in S : i = m - k}
<1>2. n \in S
  BY <1>1
<1>3. \A y \in S : m - y \in T
  <2> SUFFICES ASSUME NEW y \in S PROVE m - y \in T
    OBVIOUS
  <2>1. y \in n..m /\ m - y \in Nat
    BY <1>1
  <2> HIDE DEF S
  <2> QED
    BY <2>1
<1>4. PICK i \in T : \A j \in T : i <= j
  <2>1. T \in SUBSET Nat /\ T # {}
    BY <1>2, <1>3
  <2> HIDE DEF T
  <2> QED
    BY <2>1, Least
<1>5. PICK x \in S : i = m - x
  BY <1>4
<1>6. \A y \in S : x >= y
  <2> SUFFICES ASSUME NEW y \in S PROVE x >= y
    OBVIOUS
  <2>1. m - y \in T
    BY <1>3
  <2>2. i <= m - y
    BY <1>4, <2>1
  <2> QED
    BY <1>1, <1>5, <2>2
<1>7. PICK z \in S : z = LevelEnd(name, n) /\ \A y \in S : z >= y
  <2>1. LevelEnd(name, n) = CHOOSE z \in S : \A y \in S : z >= y
    BY <1>1 DEF LevelEnd, Max
  <2> HIDE DEF S
  <2> QED
    BY <1>6, <2>1
<1>8. z = m \/ name[z + 1] = Slash
  <2> SUFFICES ASSUME z # m, name[z + 1] # Slash PROVE FALSE
    OBVIOUS
  <2>1. z + 1 \in S
    BY <1>1
  <2> QED
    BY <1>1, <1>7, <2>1
<1> QED
  BY <1>1, <1>7, <1>8

\* The loop goes on within the name.
LEMMA TakesWithin ==
  ASSUME NEW filter \in Seq(Byte), NEW name \in Seq(Byte),
         NEW f \in 1..(Len(filter) + 1), NEW n \in 1..(Len(name) + 1),
         ~MatchStops(filter, f, name, n)
  PROVE  /\ f \in 1..Len(filter) /\ n \in 1..Len(name)
         /\ MatchTakes(filter, f, name, n) \in 1..Len(name)
<1>1. f \in 1..Len(filter) /\ n \in 1..Len(name)
  BY DEF MatchStops
<1>2. LevelEnd(name, n) \in n..Len(name)
  BY <1>1, LevelEndIs
<1>3. CASE filter[f] = Plus
  BY <1>1, <1>2, <1>3 DEF MatchTakes
<1>4. CASE filter[f] # Plus /\ filter[f] = Hash
  BY <1>1, <1>4 DEF MatchTakes
<1>5. CASE filter[f] # Plus /\ filter[f] # Hash
  BY <1>1, <1>5 DEF MatchTakes
<1> QED
  BY <1>1, <1>3, <1>4, <1>5

\* Where the loop ends from each place.
FollowsLoop(end, filter, name) ==
  \A f \in 1..(Len(filter) + 1), n \in 1..(Len(name) + 1) :
    /\ MatchStops(filter, f, name, n) => end[<<f, n>>] = <<f, n>>
    /\ ~MatchStops(filter, f, name, n) => end[<<f, n>>] = end[<<f + 1, MatchTakes(filter, f, name, n) + 1>>]

\* It does end: from the end of the filter back.
LEMMA LoopExists ==
  ASSUME NEW filter \in Seq(Byte), NEW name \in Seq(Byte)
  PROVE  \E end : FollowsLoop(end, filter, name)
<1>1. PICK p \in Nat, q \in Nat : p = Len(filter) /\ q = Len(name)
  OBVIOUS
<1> DEFINE D == 0..p
           N == 1..(q + 1)
           W == (1..(p + 1)) \X N
           V == [N -> W]
           e == [k \in D |-> [n \in N |-> <<p + 1, n>>]]
           down == [k \in D |-> IF k = 0 THEN 0 ELSE k - 1]
           To(k, X, n) == IF MatchStops(filter, p + 1 - k, name, n) THEN <<p + 1 - k, n>>
                          ELSE X[MatchTakes(filter, p + 1 - k, name, n) + 1]
           step == [x \in D \X V |-> [n \in N |-> To(x[1], x[2], n)]]
<1>2. ASSUME NEW k \in D, NEW X \in V, NEW n \in N PROVE To(k, X, n) \in W
  <2>1. p + 1 - k \in 1..(Len(filter) + 1) /\ n \in 1..(Len(name) + 1)
    BY <1>1
  <2>2. CASE MatchStops(filter, p + 1 - k, name, n)
    BY <1>1, <2>1, <2>2
  <2>3. CASE ~MatchStops(filter, p + 1 - k, name, n)
    <3>1. MatchTakes(filter, p + 1 - k, name, n) \in 1..Len(name)
      BY <2>1, <2>3, TakesWithin
    <3>2. MatchTakes(filter, p + 1 - k, name, n) + 1 \in N
      BY <1>1, <3>1
    <3>3. X[MatchTakes(filter, p + 1 - k, name, n) + 1] \in W
      <4> HIDE DEF W, N
      <4> QED
        BY <3>2
    <3> QED
      BY <2>3, <3>3
  <2> QED
    BY <2>2, <2>3
<1>3. RecursionFrom(D, V, {0}, e, down, step)
  <2>1. D \in SUBSET Nat
    OBVIOUS
  <2>2. e \in [D -> V]
    <3>1. \A n \in N : <<p + 1, n>> \in W
      OBVIOUS
    <3> HIDE DEF W, N, D
    <3> QED
      BY <3>1
  <2>3. down \in [D -> D] /\ \A k \in D : k \notin {0} => down[k] < k
    OBVIOUS
  <2>4. step \in [D \X V -> V]
    <3>1. ASSUME NEW k \in D, NEW X \in V PROVE [n \in N |-> To(k, X, n)] \in V
      <4> HIDE DEF D, N, W, To
      <4> QED
        BY <1>2
    <3> HIDE DEF D, V, To
    <3> QED
      BY <3>1
  <2> HIDE DEF D, V, e, down, step
  <2> QED
    BY <2>1, <2>2, <2>3, <2>4 DEF RecursionFrom
<1>4. PICK g : Recursive(g, D, V, {0}, e, down, step)
  <2> HIDE DEF D, V, e, down, step
  <2> QED
    BY <1>3, Recursion
<1>5. g \in [D -> V] /\ \A k \in D : g[k] = IF k \in {0} THEN e[k] ELSE step[<<k, g[down[k]]>>]
  <2> HIDE DEF D, V, e, down, step
  <2> QED
    BY <1>4 DEF Recursive
<1>6. \A n \in N : g[0][n] = <<p + 1, n>>
  <2>1. 0 \in D
    OBVIOUS
  <2>2. e[0] = [n \in N |-> <<p + 1, n>>]
    BY <2>1
  <2> HIDE DEF D, V, N, e, down, step
  <2> QED
    BY <1>5, <2>1, <2>2
<1>7. ASSUME NEW k \in 1..p, NEW n \in N PROVE g[k][n] = To(k, g[k - 1], n)
  <2>1. k \in D /\ k - 1 \in D /\ down[k] = k - 1 /\ k \notin {0}
    OBVIOUS
  <2>2. g[k] = step[<<k, g[k - 1]>>] /\ g[k - 1] \in V
    <3> HIDE DEF D, V, e, down, step
    <3> QED
      BY <1>5, <2>1
  <2>3. step[<<k, g[k - 1]>>] = [i \in N |-> To(k, g[k - 1], i)]
    <3> HIDE DEF D, V, e, down, To, N
    <3> QED
      BY <2>1, <2>2
  <2> HIDE DEF D, V, e, down, To, step
  <2> QED
    BY <2>2, <2>3
<1> DEFINE end == [at \in W |-> g[p + 1 - at[1]][at[2]]]
<1>8. ASSUME NEW f \in 1..(p + 1), NEW n \in N
      PROVE  end[<<f, n>>] = g[p + 1 - f][n]
  OBVIOUS
<1> HIDE DEF end
<1>9. ASSUME NEW f \in 1..(p + 1), NEW n \in N
      PROVE  /\ MatchStops(filter, f, name, n) => end[<<f, n>>] = <<f, n>>
             /\ ~MatchStops(filter, f, name, n) =>
                  end[<<f, n>>] = end[<<f + 1, MatchTakes(filter, f, name, n) + 1>>]
  <2>1. CASE f = p + 1
    <3>1. MatchStops(filter, f, name, n)
      BY <1>1, <2>1 DEF MatchStops
    <3>2. end[<<f, n>>] = <<f, n>>
      <4>1. p + 1 - f = 0
        BY <2>1
      <4> QED
        BY <1>6, <1>8, <2>1, <4>1
    <3> QED
      BY <3>1, <3>2
  <2>2. CASE f # p + 1
    <3>1. PICK k \in 1..p : k = p + 1 - f /\ f = p + 1 - k /\ k - 1 = p + 1 - (f + 1)
      BY <2>2
    <3>2. end[<<f, n>>] = To(k, g[k - 1], n)
      BY <1>7, <1>8, <3>1
    <3>3. CASE MatchStops(filter, f, name, n)
      BY <3>1, <3>2, <3>3
    <3>4. CASE ~MatchStops(filter, f, name, n)
      <4>1. PICK t \in 1..q : t = MatchTakes(filter, f, name, n)
        BY <1>1, <3>4, TakesWithin
      <4>2. end[<<f, n>>] = g[k - 1][t + 1]
        BY <3>1, <3>2, <3>4, <4>1
      <4>3. f + 1 \in 1..(p + 1) /\ t + 1 \in N
        BY <3>1
      <4>4. end[<<f + 1, t + 1>>] = g[k - 1][t + 1]
        BY <1>8, <3>1, <4>3
      <4> QED
        BY <3>4, <4>1, <4>2, <4>4
    <3> QED
      BY <3>3, <3>4
  <2> QED
    BY <2>1, <2>2
<1>10. N = 1..(q + 1)
  OBVIOUS
<1> HIDE DEF N
<1>11. FollowsLoop(end, filter, name)
  BY <1>1, <1>9, <1>10 DEF FollowsLoop
<1> QED
  BY <1>11

\* The match is told by where the loop from the first bytes on ends.
LEMMA LoopIs ==
  ASSUME NEW filter \in Seq(Byte), NEW name \in Seq(Byte)
  PROVE  \E end : /\ FollowsLoop(end, filter, name)
                  /\ IsTopicMatched(filter, name) <=>
                       MatchEnds(filter, end[<<1, 1>>][1], name, end[<<1, 1>>][2])
<1>1. PICK p \in Nat, q \in Nat : p = Len(filter) /\ q = Len(name)
  OBVIOUS
<1> DEFINE W == (1..(p + 1)) \X (1..(q + 1))
           Is(g) == g = [at \in W |-> IF MatchStops(filter, at[1], name, at[2]) THEN at
                                      ELSE g[<<at[1] + 1, MatchTakes(filter, at[1], name, at[2]) + 1>>]]
<1>2. IsTopicMatched(filter, name) <=>
        MatchEnds(filter, (CHOOSE g : Is(g))[<<1, 1>>][1], name, (CHOOSE g : Is(g))[<<1, 1>>][2])
  BY <1>1 DEF IsTopicMatched
<1>3. PICK h : FollowsLoop(h, filter, name)
  BY LoopExists
<1> DEFINE at == [x \in W |-> h[x]]
<1>4. Is(at)
  <2>1. ASSUME NEW x \in W
        PROVE  h[x] = IF MatchStops(filter, x[1], name, x[2]) THEN x
                      ELSE at[<<x[1] + 1, MatchTakes(filter, x[1], name, x[2]) + 1>>]
    <3>1. PICK f \in 1..(p + 1), n \in 1..(q + 1) : x = <<f, n>>
      OBVIOUS
    <3>2. CASE MatchStops(filter, f, name, n)
      BY <1>1, <1>3, <3>1, <3>2 DEF FollowsLoop
    <3>3. CASE ~MatchStops(filter, f, name, n)
      <4>1. PICK t \in 1..q : t = MatchTakes(filter, f, name, n)
        BY <1>1, <3>3, TakesWithin
      <4>2. f \in 1..p
        BY <1>1, <3>3, TakesWithin
      <4>3. h[<<f, n>>] = h[<<f + 1, t + 1>>]
        BY <1>1, <1>3, <3>3, <4>1 DEF FollowsLoop
      <4>4. <<f + 1, t + 1>> \in W
        BY <4>2
      <4> QED
        BY <3>1, <3>3, <4>1, <4>3, <4>4
    <3> QED
      BY <3>2, <3>3
  <2> HIDE DEF W
  <2> QED
    BY <2>1
<1>5. PICK g : g = (CHOOSE x : Is(x)) /\ Is(g)
  <2> HIDE DEF Is, at
  <2> QED
    BY <1>4, Zenon
<1>6. IsTopicMatched(filter, name) <=> MatchEnds(filter, g[<<1, 1>>][1], name, g[<<1, 1>>][2])
  <2> HIDE DEF Is
  <2> QED
    BY <1>2, <1>5, Zenon
<1>7. ASSUME NEW f \in 1..(p + 1), NEW n \in 1..(q + 1)
      PROVE  /\ MatchStops(filter, f, name, n) => g[<<f, n>>] = <<f, n>>
             /\ ~MatchStops(filter, f, name, n) =>
                  g[<<f, n>>] = g[<<f + 1, MatchTakes(filter, f, name, n) + 1>>]
  <2>1. <<f, n>> \in W /\ <<f, n>>[1] = f /\ <<f, n>>[2] = n
    OBVIOUS
  <2>2. g[<<f, n>>] = IF MatchStops(filter, f, name, n) THEN <<f, n>>
                      ELSE g[<<f + 1, MatchTakes(filter, f, name, n) + 1>>]
    <3>1. \A x \in W : g[x] = IF MatchStops(filter, x[1], name, x[2]) THEN x
                               ELSE g[<<x[1] + 1, MatchTakes(filter, x[1], name, x[2]) + 1>>]
      <4>1. g = [x \in W |-> IF MatchStops(filter, x[1], name, x[2]) THEN x
                             ELSE g[<<x[1] + 1, MatchTakes(filter, x[1], name, x[2]) + 1>>]]
        BY <1>5
      <4> HIDE DEF W, Is
      <4> QED
        BY <4>1
    <3> HIDE DEF W, Is
    <3> QED
      BY <2>1, <3>1
  <2> QED
    BY <2>2
<1>8. FollowsLoop(g, filter, name)
  BY <1>1, <1>7 DEF FollowsLoop
<1> QED
  BY <1>6, <1>8

=============================================================================
