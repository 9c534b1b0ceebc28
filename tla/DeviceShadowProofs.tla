------------------------- MODULE DeviceShadowProofs -------------------------
(***************************************************************************)
(* The device and its shadow for any probes, temperatures and periods, any *)
(* number of requests of the app and of losses, and queues of any length.  *)
(***************************************************************************)
EXTENDS DeviceShadow, SequenceTheorems, TLAPS

-----------------------------------------------------------------------------
(* Degrees.                                                                *)

\* The 16 bits of a temperature.
LEMMA DegreesAre == \A x : x \in DegreesF <=> x \in Int /\ 0 <= x /\ x <= 65535
<1> DEFINE top == 65535
<1>1. top \in Int
  OBVIOUS
<1>2. DegreesF = 0..top
  BY DEF DegreesF
<1> HIDE DEF top
<1>3. \A x : x \in 0..top <=> x \in Int /\ 0 <= x /\ x <= top
  BY <1>1
<1>4. \A x : x \in DegreesF <=> x \in Int /\ 0 <= x /\ x <= top
  BY <1>2, <1>3
<1>5. QED
  BY <1>4 DEF top

\* The division towards zero is at most 8/9 off.
LEMMA CelsiusBounds ==
  ASSUME NEW t \in Int, 0 <= t, t <= 65535
  PROVE  /\ ToCelsius(t) \in Int
         /\ 5 * t - 168 <= 9 * ToCelsius(t) /\ 9 * ToCelsius(t) <= 5 * t - 152
         /\ -18 <= ToCelsius(t) /\ ToCelsius(t) <= 36390
<1>1. \A x \in Int : x >= 0 => x \div 9 \in Int /\ 9 * (x \div 9) <= x /\ x <= 9 * (x \div 9) + 8
  OBVIOUS
<1>2. CASE t >= 32
  <2> DEFINE a == (t - 32) * 5
             q == a \div 9
  <2>1. a \in Int /\ a >= 0 /\ a = 5 * t - 160
    BY <1>2
  <2>2. ToCelsius(t) = q
    BY <2>1 DEF ToCelsius, DivC
  <2> HIDE DEF a
  <2>3. q \in Int /\ 9 * q <= a /\ a <= 9 * q + 8
    BY <1>1, <2>1
  <2> HIDE DEF q
  <2>4. QED
    BY <2>1, <2>2, <2>3
<1>3. CASE t < 32
  <2> DEFINE a == -((t - 32) * 5)
             q == a \div 9
  <2>1. a \in Int /\ a >= 0 /\ a = 160 - 5 * t /\ ~((t - 32) * 5 >= 0)
    BY <1>3
  <2>2. ToCelsius(t) = -q
    BY <2>1 DEF ToCelsius, DivC
  <2> HIDE DEF a
  <2>3. q \in Int /\ 9 * q <= a /\ a <= 9 * q + 8
    BY <1>1, <2>1
  <2> HIDE DEF q
  <2>4. QED
    BY <2>1, <2>2, <2>3
<1>4. QED
  BY <1>2, <1>3

\* Rounding is half a degree off, and 16 bits are enough for what Celsius reaches.
LEMMA FahrenheitBounds ==
  ASSUME NEW c \in Int, -18 <= c, c <= 36390
  PROVE  /\ ToFahrenheit(c) \in Int /\ 0 <= ToFahrenheit(c) /\ ToFahrenheit(c) <= 65535
         /\ 10 * ToFahrenheit(c) <= 18 * c + 325 /\ 18 * c + 325 <= 10 * ToFahrenheit(c) + 9
<1> DEFINE n == 18 * c + 325
           x == n \div 10
<1>1. n \in Int /\ 0 <= n /\ n <= 655355
  OBVIOUS
<1>2. \A y \in Int : y >= 0 => y \div 10 \in Int /\ 10 * (y \div 10) <= y /\ y <= 10 * (y \div 10) + 9
  OBVIOUS
<1>3. \A y \in Int : 0 <= y /\ y < 65536 => y % 65536 = y
  OBVIOUS
<1> HIDE DEF n
<1>4. x \in Int /\ 10 * x <= n /\ n <= 10 * x + 9
  BY <1>1, <1>2
<1> HIDE DEF x
<1>5. 0 <= x /\ x < 65536
  BY <1>1, <1>4
<1>6. ToFahrenheit(c) = x % 65536
  BY DEF ToFahrenheit, x, n
<1>7. ToFahrenheit(c) = x
  BY <1>3, <1>4, <1>5, <1>6
<1>8. QED
  BY <1>4, <1>5, <1>7 DEF n

\* There and back moves a temperature by a degree at most.
LEMMA ThereAndBack ==
  ASSUME NEW t \in DegreesF
  PROVE  ToCelsius(ToFahrenheit(ToCelsius(t))) \in (ToCelsius(t) - 1)..(ToCelsius(t) + 1)
<1>1. t \in Int /\ 0 <= t /\ t <= 65535
  BY DegreesAre
<1>2. /\ ToCelsius(t) \in Int
      /\ 5 * t - 168 <= 9 * ToCelsius(t) /\ 9 * ToCelsius(t) <= 5 * t - 152
      /\ -18 <= ToCelsius(t) /\ ToCelsius(t) <= 36390
  BY <1>1, CelsiusBounds
<1>3. PICK c \in Int : /\ c = ToCelsius(t) /\ -18 <= c /\ c <= 36390
                       /\ 5 * t - 168 <= 9 * c /\ 9 * c <= 5 * t - 152
  BY <1>2
<1>4. PICK f \in Int : /\ f = ToFahrenheit(c) /\ 0 <= f /\ f <= 65535
                       /\ 10 * f <= 18 * c + 325 /\ 18 * c + 325 <= 10 * f + 9
  BY <1>3, FahrenheitBounds
<1>5. PICK d \in Int : d = ToCelsius(f) /\ 5 * f - 168 <= 9 * d /\ 9 * d <= 5 * f - 152
  BY <1>4, CelsiusBounds
<1>6. d \in (c - 1)..(c + 1)
  BY <1>1, <1>3, <1>4, <1>5
<1>7. QED
  BY <1>3, <1>4, <1>5, <1>6

\* What the app may ask for is a temperature of 16 bits, in either unit.
LEMMA TargetInRange ==
  ASSUME NEW n \in Temperatures, NEW celsius \in BOOLEAN
  PROVE  Target(celsius, n) \in DegreesF
<1>1. n \in Int /\ 1 <= n /\ n <= 1000
  BY ShadowAssumption
<1>2. -18 <= n /\ n <= 36390
  BY <1>1
<1>3. ToFahrenheit(n) \in Int /\ 0 <= ToFahrenheit(n) /\ ToFahrenheit(n) <= 65535
  BY <1>1, <1>2, FahrenheitBounds
<1>4. ToFahrenheit(n) \in DegreesF
  BY <1>3, DegreesAre
<1>5. n \in DegreesF
  BY <1>1, DegreesAre
<1>6. QED
  BY <1>4, <1>5, Zenon DEF Target

-----------------------------------------------------------------------------
(* Keys, documents and queues.                                             *)

Values == BOOLEAN \cup Int \cup {NoValue}
Docs == UNION {[S -> Values] : S \in SUBSET Keys}
Messages == [kind : {"delta", "get"}, doc : Docs]

\* A delta tells the device about a key.
Carries(m, k) == m.kind = "delta" /\ k \in DOMAIN m.doc

\* The last delta about a key says v; no delta is about it.
LastSays(q, k, v) ==
  \E n \in DOMAIN q : /\ Carries(q[n], k) /\ q[n].doc[k] = v
                      /\ \A m \in DOMAIN q : m > n => ~Carries(q[m], k)
Silent(q, k) == \A n \in DOMAIN q : ~Carries(q[n], k)

\* What may be asked of each key.
LEMMA Wished ==
  /\ "pwrOn" \in Keys /\ "fah" \in Keys /\ "grill" \in Keys /\ "timer" \in Keys
  /\ Probes \subseteq Keys
  /\ \A p \in Probes : p # "pwrOn" /\ p # "fah" /\ p # "grill" /\ p # "timer"
  /\ Wishes("pwrOn") = BOOLEAN /\ Wishes("fah") = BOOLEAN
  /\ Wishes("timer") = Minutes /\ Wishes("grill") = Temperatures
  /\ \A p \in Probes : Wishes(p) = Temperatures
<1>1. \A p \in Probes : p # "pwrOn" /\ p # "fah" /\ p # "grill" /\ p # "timer"
  BY ShadowAssumption
<1>2. Wishes("pwrOn") = BOOLEAN /\ Wishes("fah") = BOOLEAN /\ Wishes("timer") = Minutes
  BY DEF Wishes
<1>3. Wishes("grill") = Temperatures
  BY DEF Wishes
<1>4. \A p \in Probes : Wishes(p) = Temperatures
  BY <1>1, Zenon DEF Wishes
<1>5. QED
  BY <1>1, <1>2, <1>3, <1>4 DEF Keys

\* A wish is a value, and says something.
LEMMA WishesAreValues ==
  ASSUME NEW k \in Keys, NEW v \in Wishes(k)
  PROVE  v \in Values /\ v # NoValue
<1>1. v \in BOOLEAN \/ v \in Minutes \/ v \in Temperatures
  BY Wished DEF Keys
<1>2. Minutes \subseteq Nat /\ Temperatures \subseteq Nat
  BY ShadowAssumption
<1>3. v \in BOOLEAN \/ v \in Nat
  BY <1>1, <1>2, Zenon
<1>4. NoValue \notin BOOLEAN /\ NoValue \notin Nat
  BY ShadowAssumption
<1>5. v # NoValue
  BY <1>3, <1>4, Zenon
<1>6. \A n \in Nat : n \in Int
  OBVIOUS
<1>7. QED
  BY <1>3, <1>5, <1>6, Zenon DEF Values

\* A key is among those of some messages when one of the deltas has it.
LEMMA DeltaKeysAre ==
  ASSUME NEW q
  PROVE  \A k : k \in DeltaKeys(q) <=> \E n \in DOMAIN q : Carries(q[n], k)
BY DEF DeltaKeys, Carries

\* One more message in a queue.
LEMMA QueueGrows ==
  ASSUME NEW q \in Seq(Messages), NEW m \in Messages, NEW k
  PROVE  /\ Append(q, m) \in Seq(Messages)
         /\ Carries(m, k) => LastSays(Append(q, m), k, m.doc[k])
         /\ ~Carries(m, k) /\ Silent(q, k) => Silent(Append(q, m), k)
         /\ \A v : ~Carries(m, k) /\ LastSays(q, k, v) => LastSays(Append(q, m), k, v)
<1> DEFINE r == Append(q, m)
<1>1. /\ r \in Seq(Messages) /\ Len(q) \in Nat /\ Len(r) = Len(q) + 1
      /\ DOMAIN q = 1..Len(q) /\ DOMAIN r = 1..(Len(q) + 1)
      /\ \A i \in 1..Len(q) : r[i] = q[i]
      /\ r[Len(q) + 1] = m
  <2>1. Len(q) \in Nat /\ DOMAIN q = 1..Len(q)
    BY LenProperties
  <2>2. /\ r \in Seq(Messages) /\ Len(r) = Len(q) + 1
        /\ \A i \in 1..Len(q) : r[i] = q[i]
        /\ r[Len(q) + 1] = m
    BY AppendProperties
  <2>3. DOMAIN r = 1..Len(r)
    BY <2>2, LenProperties
  <2>4. QED
    BY <2>1, <2>2, <2>3
<1> HIDE DEF r
<1>2. Carries(m, k) => LastSays(r, k, m.doc[k])
  BY <1>1 DEF LastSays
<1>3. ~Carries(m, k) /\ Silent(q, k) => Silent(r, k)
  BY <1>1 DEF Silent
<1>4. ASSUME NEW v, ~Carries(m, k), LastSays(q, k, v)
      PROVE  LastSays(r, k, v)
  BY <1>1, <1>4 DEF LastSays
<1>5. QED
  BY <1>1, <1>2, <1>3, <1>4 DEF r

\* One message less.
LEMMA QueueShrinks ==
  ASSUME NEW q \in Seq(Messages), q # <<>>, NEW k
  PROVE  /\ Tail(q) \in Seq(Messages) /\ Head(q) \in Messages /\ Head(q) = q[1] /\ 1 \in DOMAIN q
         /\ \A n \in DOMAIN Tail(q) : n + 1 \in DOMAIN q /\ Tail(q)[n] = q[n + 1]
         /\ Silent(q, k) => Silent(Tail(q), k) /\ ~Carries(Head(q), k)
         /\ \A v : LastSays(q, k, v) =>
              \/ LastSays(Tail(q), k, v)
              \/ Silent(Tail(q), k) /\ Carries(Head(q), k) /\ Head(q).doc[k] = v
<1> DEFINE r == Tail(q)
<1>1. /\ r \in Seq(Messages) /\ Head(q) = q[1] /\ Head(q) \in Messages
      /\ Len(q) \in Nat \ {0} /\ DOMAIN q = 1..Len(q) /\ DOMAIN r = 1..(Len(q) - 1)
      /\ \A i \in 1..(Len(q) - 1) : r[i] = q[i + 1]
  <2>1. Len(q) \in Nat \ {0} /\ DOMAIN q = 1..Len(q)
    BY LenProperties, EmptySeq
  <2>2. /\ r \in Seq(Messages) /\ Len(r) = Len(q) - 1 /\ Head(q) \in Messages
        /\ \A i \in 1..Len(r) : r[i] = q[i + 1]
    BY HeadTailProperties
  <2>3. DOMAIN r = 1..Len(r)
    BY <2>2, LenProperties
  <2>4. Head(q) = q[1]
    OBVIOUS
  <2>5. QED
    BY <2>1, <2>2, <2>3, <2>4
<1> HIDE DEF r
<1>2. 1 \in DOMAIN q /\ \A n \in DOMAIN r : n + 1 \in DOMAIN q /\ r[n] = q[n + 1]
  BY <1>1
<1>3. Silent(q, k) => Silent(r, k) /\ ~Carries(Head(q), k)
  BY <1>1, <1>2 DEF Silent
<1>4. ASSUME NEW v, LastSays(q, k, v)
      PROVE  \/ LastSays(r, k, v)
             \/ Silent(r, k) /\ Carries(Head(q), k) /\ Head(q).doc[k] = v
  <2>1. PICK n \in DOMAIN q : /\ Carries(q[n], k) /\ q[n].doc[k] = v
                              /\ \A m \in DOMAIN q : m > n => ~Carries(q[m], k)
    BY <1>4 DEF LastSays
  <2>2. CASE n = 1
    <3>1. \A m \in DOMAIN r : ~Carries(r[m], k)
      BY <1>1, <1>2, <2>1, <2>2
    <3>2. QED
      BY <1>1, <2>1, <2>2, <3>1 DEF Silent
  <2>3. CASE n # 1
    <3>1. n - 1 \in DOMAIN r /\ r[n - 1] = q[n]
      BY <1>1, <2>3
    <3>2. \A m \in DOMAIN r : m > n - 1 => ~Carries(r[m], k)
      BY <1>1, <1>2, <2>1
    <3>3. QED
      BY <2>1, <3>1, <3>2 DEF LastSays
  <2>4. QED
    BY <2>2, <2>3
<1>5. QED
  BY <1>1, <1>2, <1>3, <1>4 DEF r

-----------------------------------------------------------------------------
(* The invariant.                                                          *)

\* What a document asks is what may be asked.
WishesOnly(doc) == \A k \in DOMAIN doc : k \in Keys /\ doc[k] \in Wishes(k)

QueueOK ==
  /\ toDevice \in Seq(Messages)
  /\ \A n \in DOMAIN toDevice : toDevice[n].kind = "delta" => WishesOnly(toDevice[n].doc)

\* The desired section holds the last request for a key, if it holds one.
DesiredIsAsked ==
  /\ asked \in [Keys -> Values] /\ desired \in [Keys -> Values]
  /\ \A k \in Keys : desired[k] # NoValue =>
       desired[k] \in Wishes(k) /\ (asked[k] # NoValue => asked[k] = desired[k])

\* The last request for a key is the last on its way; when none is, it is set.
OnItsWay ==
  \A k \in Keys : asked[k] # NoValue /\ k \notin missed =>
    \/ LastSays(toDevice, k, asked[k])
    \/ Silent(toDevice, k) /\ IsSet(k, asked[k])

IInv == ShadowTypeOK /\ QueueOK /\ DesiredIsAsked /\ OnItsWay

\* The invariant looks at these variables only.
seen == <<settings, meat_probe_err, b_desired, xcount, controlTimeCount, at, asked, desired, missed, toDevice>>

\* A step that changes nothing the invariant looks at keeps it.
LEMMA SeenKeeps == IInv /\ UNCHANGED seen => IInv'
<1> SUFFICES ASSUME IInv, UNCHANGED seen PROVE IInv'
  OBVIOUS
<1>1. UNCHANGED <<b_power_on, f_c_f, set_temp_grill, set_temp_ok, set_temp_meat, setmeat_probe_ok,
                  timer_all, timer_alarm, meat_probe_err, b_desired, xcount, controlTimeCount, at,
                  asked, desired, missed, toDevice>>
  BY DEF seen, settings, temps
<1>2. ShadowTypeOK'
  BY <1>1 DEF IInv, ShadowTypeOK
<1>3. QueueOK' /\ DesiredIsAsked'
  BY <1>1 DEF IInv, QueueOK, DesiredIsAsked
<1>4. OnItsWay'
  BY <1>1 DEF IInv, OnItsWay, IsSet
<1>5. QED
  BY <1>2, <1>3, <1>4 DEF IInv

\* The shadow's delta holds wishes, each the last request for its key.
LEMMA DeltaIs ==
  ASSUME NEW wanted, NEW told, wanted \in [Keys -> Values],
         \A k \in Keys : wanted[k] # NoValue => wanted[k] \in Wishes(k)
  PROVE  /\ Delta(wanted, told) \in Docs /\ WishesOnly(Delta(wanted, told))
         /\ DOMAIN Delta(wanted, told) \subseteq Keys
         /\ \A k \in DOMAIN Delta(wanted, told) : Delta(wanted, told)[k] = wanted[k] /\ wanted[k] # NoValue
<1> DEFINE ks == {k \in Keys : wanted[k] # NoValue /\ wanted[k] # told[k]}
           doc == [k \in ks |-> wanted[k]]
<1>1. Delta(wanted, told) = doc
  BY DEF Delta
<1>2. ks \in SUBSET Keys /\ \A k \in ks : wanted[k] # NoValue /\ wanted[k] \in Values
  OBVIOUS
<1> HIDE DEF ks
<1>3. DOMAIN doc = ks /\ \A k \in ks : doc[k] = wanted[k]
  OBVIOUS
<1>4. doc \in [ks -> Values]
  BY <1>2
<1>5. doc \in Docs
  BY <1>2, <1>4 DEF Docs
<1>6. WishesOnly(doc)
  BY <1>2, <1>3 DEF WishesOnly
<1>7. QED
  BY <1>1, <1>2, <1>3, <1>5, <1>6

\* Nothing was asked and nothing is on its way at the start.
LEMMA Initially == ShadowInit => IInv
<1> SUFFICES ASSUME ShadowInit PROVE IInv
  OBVIOUS
<1>1. ShadowTypeOK
  <2>1. 32 \in DegreesF
    BY DegreesAre
  <2>2. XLimit \in Nat /\ GetPeriod \in Nat
    BY ShadowAssumption
  <2>3. set_temp_grill \in DegreesF /\ set_temp_meat \in [Probes -> DegreesF]
    BY <2>1 DEF ShadowInit
  <2>4. xcount \in 0..XLimit /\ controlTimeCount \in 0..GetPeriod
    BY <2>2 DEF ShadowInit
  <2>5. timer_all \in Minutes \cup {0} /\ timer_alarm = (timer_all # 0)
    BY DEF ShadowInit
  <2>6. /\ b_power_on \in BOOLEAN /\ f_c_f \in BOOLEAN /\ set_temp_ok \in BOOLEAN /\ b_desired \in BOOLEAN
        /\ setmeat_probe_ok \subseteq Probes /\ meat_probe_err \subseteq Probes
        /\ at \in {"control", "yield"} /\ missed \subseteq Keys
    BY DEF ShadowInit
  <2>7. QED
    BY <2>3, <2>4, <2>5, <2>6 DEF ShadowTypeOK
<1>2. Nothing \in [Keys -> Values] /\ \A k \in Keys : Nothing[k] = NoValue
  BY DEF Nothing, Values
<1>3. QueueOK
  BY DEF ShadowInit, QueueOK
<1>4. DesiredIsAsked /\ OnItsWay
  BY <1>2 DEF ShadowInit, DesiredIsAsked, OnItsWay
<1>5. QED
  BY <1>1, <1>3, <1>4 DEF IInv

\* The loop's turn: its counters stay within their periods.
LEMMA ControlKeeps == IInv /\ controlMethon => IInv'
<1> SUFFICES ASSUME IInv, controlMethon PROVE IInv'
  OBVIOUS
<1>1. /\ UNCHANGED <<b_power_on, f_c_f, set_temp_grill, set_temp_ok, set_temp_meat, setmeat_probe_ok,
                     timer_all, timer_alarm, meat_probe_err, asked, desired, missed, toDevice>>
      /\ at' = "yield"
  BY DEF controlMethon, settings, temps, cloud
<1>2. xcount' \in 0..XLimit /\ controlTimeCount' \in 0..GetPeriod /\ b_desired' \in BOOLEAN
  <2>1. /\ xcount \in 0..XLimit /\ controlTimeCount \in 0..GetPeriod /\ b_desired \in BOOLEAN
        /\ XLimit \in Nat /\ GetPeriod \in Nat
    BY ShadowAssumption DEF IInv, ShadowTypeOK
  <2>2. CASE ~Looks /\ xcount' = xcount + 1 /\ UNCHANGED <<b_desired, controlTimeCount>>
    BY <2>1, <2>2 DEF Looks
  <2>3. CASE xcount' = 0 /\ b_desired' = (b_desired /\ ~ReportDue) /\ controlTimeCount' = NextLook
    <3>1. NextLook \in 0..GetPeriod
      BY <2>1 DEF NextLook
    <3>2. (b_desired /\ ~ReportDue) \in BOOLEAN
      OBVIOUS
    <3>3. QED
      BY <2>1, <2>3, <3>1, <3>2
  <2>4. QED
    BY <2>2, <2>3 DEF controlMethon
<1>3. ShadowTypeOK'
  BY <1>1, <1>2 DEF IInv, ShadowTypeOK
<1>4. QueueOK' /\ DesiredIsAsked'
  BY <1>1 DEF IInv, QueueOK, DesiredIsAsked
<1>5. OnItsWay'
  BY <1>1 DEF IInv, OnItsWay, IsSet
<1>6. QED
  BY <1>3, <1>4, <1>5 DEF IInv

-----------------------------------------------------------------------------
(* A delta is applied.                                                     *)

\* What the delta asks is set, unless its probe is not plugged in, and what it does
\* not mention stays.
LEMMA Applied ==
  ASSUME ShadowTypeOK, NEW doc, WishesOnly(doc), dealAwsData(doc), UNCHANGED meat_probe_err
  PROVE  /\ \A k \in DOMAIN doc : k \notin meat_probe_err => IsSet(k, doc[k])'
         /\ \A k \in Keys : \A v : k \notin DOMAIN doc /\ IsSet(k, v) => IsSet(k, v)'
<1> USE DEF dealAwsData
<1>1. \A k \in DOMAIN doc : k \in Keys /\ doc[k] \in Wishes(k)
  BY DEF WishesOnly
<1>2. meat_probe_err \subseteq Probes
  BY DEF ShadowTypeOK
<1>3. \A c, n : Target(c, n) \in {n, ToFahrenheit(n)}
  BY DEF Target
<1>4. "pwrOn" \in DOMAIN doc => IsSet("pwrOn", doc["pwrOn"])'
  BY DEF ApplyPower, IsSet
<1>5. "fah" \in DOMAIN doc => IsSet("fah", doc["fah"])'
  BY DEF ApplyUnit, IsSet
<1>6. "grill" \in DOMAIN doc => IsSet("grill", doc["grill"])'
  BY <1>3 DEF ApplyGrill, IsSet
<1>7. "timer" \in DOMAIN doc => IsSet("timer", doc["timer"])'
  BY DEF ApplyTimer, IsSet
<1>8. \A p \in Probes : p \in DOMAIN doc /\ p \notin meat_probe_err => IsSet(p, doc[p])'
  <2> SUFFICES ASSUME NEW p \in Probes, p \in DOMAIN doc, p \notin meat_probe_err
               PROVE  IsSet(p, doc[p])'
    OBVIOUS
  <2>1. p \in Heard(doc)
    BY DEF Heard
  <2>2. p \in setmeat_probe_ok' /\ set_temp_meat'[p] = Target(f_c_f', doc[p])
    BY <2>1 DEF ApplyProbes
  <2>3. QED
    BY <1>3, <2>2 DEF IsSet
<1>9. ASSUME NEW k \in DOMAIN doc, k \notin meat_probe_err PROVE IsSet(k, doc[k])'
  BY <1>1, <1>4, <1>5, <1>6, <1>7, <1>8, <1>9 DEF Keys
<1>10. ASSUME NEW v, "pwrOn" \notin DOMAIN doc, IsSet("pwrOn", v) PROVE IsSet("pwrOn", v)'
  BY <1>10, Wished DEF ApplyPower, IsSet
<1>11. ASSUME NEW v, "fah" \notin DOMAIN doc, IsSet("fah", v) PROVE IsSet("fah", v)'
  BY <1>11, Wished DEF ApplyUnit, IsSet
<1>12. ASSUME NEW v, "grill" \notin DOMAIN doc, IsSet("grill", v) PROVE IsSet("grill", v)'
  BY <1>12, Wished DEF ApplyGrill, IsSet
<1>13. ASSUME NEW v, "timer" \notin DOMAIN doc, IsSet("timer", v) PROVE IsSet("timer", v)'
  BY <1>13, Wished DEF ApplyTimer, IsSet
<1>14. ASSUME NEW p \in Probes, NEW v, p \notin DOMAIN doc, IsSet(p, v) PROVE IsSet(p, v)'
  <2>1. p \in setmeat_probe_ok /\ set_temp_meat[p] \in {v, ToFahrenheit(v)}
    BY <1>14, Wished DEF IsSet
  <2>2. p \in setmeat_probe_ok' /\ set_temp_meat'[p] = set_temp_meat[p]
    BY <1>14, <2>1 DEF ApplyProbes, Heard
  <2>3. QED
    BY <2>1, <2>2 DEF IsSet
<1>15. ASSUME NEW k \in Keys, NEW v, k \notin DOMAIN doc, IsSet(k, v) PROVE IsSet(k, v)'
  BY <1>10, <1>11, <1>12, <1>13, <1>14, <1>15 DEF Keys
<1>16. QED
  BY <1>9, <1>15

\* The settings keep their types.
LEMMA AppliedTypes ==
  ASSUME ShadowTypeOK, NEW doc, WishesOnly(doc), dealAwsData(doc), UNCHANGED meat_probe_err
  PROVE  /\ b_power_on' \in BOOLEAN /\ f_c_f' \in BOOLEAN /\ set_temp_ok' \in BOOLEAN
         /\ set_temp_grill' \in DegreesF
         /\ set_temp_meat' \in [Probes -> DegreesF]
         /\ setmeat_probe_ok' \subseteq Probes
         /\ timer_all' \in Minutes \cup {0} /\ timer_alarm' = (timer_all' # 0)
         /\ b_desired' \in BOOLEAN
<1> USE DEF dealAwsData
<1>1. \A k \in DOMAIN doc : k \in Keys /\ doc[k] \in Wishes(k)
  BY DEF WishesOnly
<1>2. b_power_on' \in BOOLEAN
  BY <1>1, Wished, Zenon DEF ApplyPower, ShadowTypeOK
<1>3. f_c_f' \in BOOLEAN
  <2>1. CASE "fah" \in DOMAIN doc
    BY <2>1 DEF ApplyUnit
  <2>2. CASE "fah" \notin DOMAIN doc
    BY <2>2 DEF ApplyUnit, ShadowTypeOK
  <2>3. QED
    BY <2>1, <2>2
<1>4. set_temp_ok' \in BOOLEAN /\ set_temp_grill' \in DegreesF
  <2>1. CASE "grill" \in DOMAIN doc
    <3>1. doc["grill"] \in Temperatures
      BY <1>1, <2>1, Wished
    <3>2. QED
      BY <1>3, <2>1, <3>1, TargetInRange DEF ApplyGrill
  <2>2. CASE "grill" \notin DOMAIN doc
    BY <2>2 DEF ApplyGrill, ShadowTypeOK
  <2>3. QED
    BY <2>1, <2>2
<1>5. set_temp_meat' \in [Probes -> DegreesF] /\ setmeat_probe_ok' \subseteq Probes
  <2>1. \A p \in Heard(doc) : p \in Probes /\ Target(f_c_f', doc[p]) \in DegreesF
    BY <1>1, <1>3, Wished, TargetInRange DEF Heard
  <2>2. QED
    BY <2>1 DEF ApplyProbes, ShadowTypeOK
<1>6. timer_all' \in Minutes \cup {0} /\ timer_alarm' = (timer_all' # 0)
  <2>1. CASE "timer" \in DOMAIN doc
    <3>1. doc["timer"] \in Minutes
      BY <1>1, <2>1, Wished
    <3>2. QED
      BY <2>1, <3>1, Zenon DEF ApplyTimer
  <2>2. CASE "timer" \notin DOMAIN doc
    BY <2>2, Zenon DEF ApplyTimer, ShadowTypeOK
  <2>3. QED
    BY <2>1, <2>2
<1>7. b_desired' \in BOOLEAN
  OBVIOUS
<1>8. QED
  BY <1>2, <1>3, <1>4, <1>5, <1>6, <1>7

\* How a step is shown to keep the last conjunct.
LEMMA WayGoesOn ==
  ASSUME \A k \in Keys : \A v :
           v = asked'[k] /\ v # NoValue /\ k \notin missed'
             => LastSays(toDevice', k, v) \/ (Silent(toDevice', k) /\ IsSet(k, v)')
  PROVE  OnItsWay'
BY Zenon DEF OnItsWay, IsSet

\* A queue that loses its head is a queue.
LEMMA TailIsOK ==
  ASSUME QueueOK, toDevice # <<>>, toDevice' = Tail(toDevice)
  PROVE  QueueOK'
<1>1. toDevice \in Seq(Messages)
  BY DEF QueueOK
<1>2. /\ Tail(toDevice) \in Seq(Messages)
      /\ \A n \in DOMAIN Tail(toDevice) : n + 1 \in DOMAIN toDevice /\ Tail(toDevice)[n] = toDevice[n + 1]
  BY <1>1, QueueShrinks
<1>3. QED
  BY <1>2 DEF QueueOK

\* What has arrived is delivered.
LEMMA DeltaKeeps ==
  ASSUME IInv, Yield, toDevice # <<>>, HandleDelta, toDevice' = Tail(toDevice), UNCHANGED at
  PROVE  IInv'
<1> DEFINE doc == Head(toDevice).doc
           gone == {k \in DOMAIN doc \ DeltaKeys(Tail(toDevice)) : doc[k] = asked[k]}
<1>1. /\ dealAwsData(doc) /\ missed' = missed \ gone
      /\ asked' = [k \in Keys |-> IF k \in DOMAIN doc \cap meat_probe_err THEN NoValue ELSE asked[k]]
      /\ UNCHANGED <<desired, meat_probe_err, xcount, controlTimeCount>>
      /\ Head(toDevice).kind = "delta"
  BY DEF HandleDelta, Yield
<1>2. ShadowTypeOK /\ QueueOK /\ DesiredIsAsked /\ OnItsWay
  BY DEF IInv
<1>3. toDevice \in Seq(Messages) /\ Head(toDevice) = toDevice[1] /\ 1 \in DOMAIN toDevice
  BY <1>2, QueueShrinks DEF QueueOK
<1>4. WishesOnly(doc)
  BY <1>1, <1>2, <1>3 DEF QueueOK
<1>5. \A k : k \in DOMAIN doc <=> Carries(Head(toDevice), k)
  BY <1>1 DEF Carries
<1> HIDE DEF doc
<1>6. ShadowTypeOK'
  BY <1>1, <1>2, <1>4, AppliedTypes, Zenon DEF ShadowTypeOK
<1>7. QueueOK'
  BY <1>2, TailIsOK
<1>8. DesiredIsAsked'
  <2>1. asked' \in [Keys -> Values] /\ \A k \in Keys : asked'[k] = NoValue \/ asked'[k] = asked[k]
    BY <1>1, <1>2 DEF DesiredIsAsked, Values
  <2>2. QED
    BY <1>1, <1>2, <2>1 DEF DesiredIsAsked
<1>9. OnItsWay'
  <2> SUFFICES ASSUME NEW k \in Keys, NEW v, v = asked'[k], v # NoValue, k \notin missed'
               PROVE  LastSays(Tail(toDevice), k, v) \/ (Silent(Tail(toDevice), k) /\ IsSet(k, v)')
    BY WayGoesOn, Zenon
  <2>1. asked[k] = v /\ ~(k \in DOMAIN doc /\ k \in meat_probe_err)
    BY <1>1
  <2>2. k \in DOMAIN doc /\ doc[k] = v => IsSet(k, v)'
    BY <1>1, <1>2, <1>4, <2>1, Applied
  <2>3. CASE k \in missed
    <3>1. k \in DOMAIN doc /\ k \notin DeltaKeys(Tail(toDevice)) /\ doc[k] = v
      BY <1>1, <2>1, <2>3
    <3>2. Silent(Tail(toDevice), k)
      BY <3>1, DeltaKeysAre DEF Silent
    <3>3. QED
      BY <2>2, <3>1, <3>2
  <2>4. CASE k \notin missed /\ LastSays(toDevice, k, v)
    <3>1. \/ LastSays(Tail(toDevice), k, v)
          \/ Silent(Tail(toDevice), k) /\ k \in DOMAIN doc /\ doc[k] = v
      BY <1>3, <1>5, <2>4, QueueShrinks DEF doc
    <3>2. QED
      BY <2>2, <3>1
  <2>5. CASE k \notin missed /\ Silent(toDevice, k) /\ IsSet(k, v)
    <3>1. Silent(Tail(toDevice), k) /\ k \notin DOMAIN doc
      BY <1>3, <1>5, <2>5, QueueShrinks
    <3>2. IsSet(k, v)'
      BY <1>1, <1>2, <1>4, <2>5, <3>1, Applied
    <3>3. QED
      BY <3>1, <3>2
  <2>6. QED
    BY <1>2, <2>1, <2>3, <2>4, <2>5 DEF OnItsWay
<1>10. QED
  BY <1>6, <1>7, <1>8, <1>9 DEF IInv

\* dealAwsData sets what a delta asks for; the rest of a yield changes no request.
LEMMA YieldKeeps == IInv /\ Yield => IInv'
<1> SUFFICES ASSUME IInv, Yield PROVE IInv'
  OBVIOUS
<1>1. CASE toDevice = <<>> /\ at' = "control" /\ UNCHANGED <<settings, b_desired, cloud, toDevice>>
  <2>1. /\ UNCHANGED <<b_power_on, f_c_f, set_temp_grill, set_temp_ok, set_temp_meat, setmeat_probe_ok,
                       timer_all, timer_alarm, meat_probe_err, b_desired, xcount, controlTimeCount,
                       asked, desired, missed, toDevice>>
        /\ at' \in {"control", "yield"}
    BY <1>1 DEF Yield, settings, temps, cloud
  <2>2. ShadowTypeOK'
    BY <2>1 DEF IInv, ShadowTypeOK
  <2>3. QueueOK' /\ DesiredIsAsked'
    BY <2>1 DEF IInv, QueueOK, DesiredIsAsked
  <2>4. OnItsWay'
    BY <2>1 DEF IInv, OnItsWay, IsSet
  <2>5. QED
    BY <2>2, <2>3, <2>4 DEF IInv
<1>2. CASE toDevice # <<>> /\ HandleGet /\ toDevice' = Tail(toDevice) /\ UNCHANGED at
  <2>1. /\ UNCHANGED <<b_power_on, f_c_f, set_temp_grill, set_temp_ok, set_temp_meat, setmeat_probe_ok,
                       timer_all, timer_alarm, meat_probe_err, b_desired, xcount, controlTimeCount, at,
                       asked, desired, missed>>
        /\ Head(toDevice).kind = "get"
    BY <1>2 DEF Yield, HandleGet, settings, temps, cloud
  <2>2. ShadowTypeOK'
    BY <2>1 DEF IInv, ShadowTypeOK
  <2>3. QueueOK'
    BY <1>2, TailIsOK DEF IInv
  <2>4. DesiredIsAsked'
    BY <2>1 DEF IInv, DesiredIsAsked
  <2>5. OnItsWay'
    <3> SUFFICES ASSUME NEW k \in Keys, asked[k] # NoValue, k \notin missed
                 PROVE  \/ LastSays(Tail(toDevice), k, asked[k])
                        \/ Silent(Tail(toDevice), k) /\ IsSet(k, asked[k])
      BY <1>2, <2>1 DEF OnItsWay, IsSet
    <3>1. toDevice \in Seq(Messages) /\ ~Carries(Head(toDevice), k)
      BY <2>1 DEF IInv, QueueOK, Carries
    <3>2. LastSays(toDevice, k, asked[k]) \/ (Silent(toDevice, k) /\ IsSet(k, asked[k]))
      BY DEF IInv, OnItsWay
    <3>3. QED
      BY <1>2, <3>1, <3>2, QueueShrinks
  <2>6. QED
    BY <2>2, <2>3, <2>4, <2>5 DEF IInv
<1>3. CASE toDevice # <<>> /\ HandleDelta /\ toDevice' = Tail(toDevice) /\ UNCHANGED at
  BY <1>3, DeltaKeeps
<1>4. QED
  BY <1>1, <1>2, <1>3 DEF Yield

-----------------------------------------------------------------------------
(* The app, the service and the losses.                                    *)

\* What only the messages change.
LEMMA QuietKeeps ==
  ASSUME IInv, QueueOK', DesiredIsAsked', OnItsWay', missed' \subseteq Keys,
         UNCHANGED <<settings, meat_probe_err, b_desired, xcount, controlTimeCount, at>>
  PROVE  IInv'
<1>1. UNCHANGED <<b_power_on, f_c_f, set_temp_grill, set_temp_ok, set_temp_meat, setmeat_probe_ok,
                  timer_all, timer_alarm, meat_probe_err, b_desired, xcount, controlTimeCount, at>>
  BY DEF settings, temps
<1>2. ShadowTypeOK'
  BY <1>1 DEF IInv, ShadowTypeOK
<1>3. QED
  BY <1>2 DEF IInv

\* Whether a request is set depends on the settings alone.
LEMMA StaysSet == UNCHANGED settings => \A k, v : IsSet(k, v) <=> IsSet(k, v)'
BY DEF settings, temps, IsSet

\* A new request is put on its way, or known not to be sent.
LEMMA AppAsksKeeps == IInv /\ AppAsks => IInv'
<1> SUFFICES ASSUME IInv, AppAsks PROVE IInv'
  OBVIOUS
<1>1. PICK k \in Keys : \E v \in Wishes(k) :
        LET wanted == [desired EXCEPT ![k] = v]
            doc == Delta(wanted, reported)
        IN /\ desired' = wanted
           /\ asked' = [asked EXCEPT ![k] = v]
           /\ toDevice' = IF DOMAIN doc # {} /\ wifi_connect
                          THEN Append(toDevice, [kind |-> "delta", doc |-> doc]) ELSE toDevice
           /\ missed' = missed \cup (IF wifi_connect THEN {k} \ DOMAIN doc ELSE {k} \cup DOMAIN doc)
  BY DEF AppAsks
<1>2. PICK v \in Wishes(k) :
        LET wanted == [desired EXCEPT ![k] = v]
            doc == Delta(wanted, reported)
        IN /\ desired' = wanted
           /\ asked' = [asked EXCEPT ![k] = v]
           /\ toDevice' = IF DOMAIN doc # {} /\ wifi_connect
                          THEN Append(toDevice, [kind |-> "delta", doc |-> doc]) ELSE toDevice
           /\ missed' = missed \cup (IF wifi_connect THEN {k} \ DOMAIN doc ELSE {k} \cup DOMAIN doc)
  BY <1>1
<1> DEFINE wanted == [desired EXCEPT ![k] = v]
           doc == Delta(wanted, reported)
           msg == [kind |-> "delta", doc |-> doc]
<1>3. /\ desired' = wanted
      /\ asked' = [asked EXCEPT ![k] = v]
      /\ toDevice' = IF DOMAIN doc # {} /\ wifi_connect THEN Append(toDevice, msg) ELSE toDevice
      /\ missed' = missed \cup (IF wifi_connect THEN {k} \ DOMAIN doc ELSE {k} \cup DOMAIN doc)
  BY <1>2
<1>4. v \in Values /\ v # NoValue
  BY WishesAreValues
<1>5. ShadowTypeOK /\ QueueOK /\ DesiredIsAsked /\ OnItsWay
  BY DEF IInv
<1>6. /\ wanted \in [Keys -> Values]
      /\ wanted[k] = v /\ \A j \in Keys : j # k => wanted[j] = desired[j]
      /\ asked' \in [Keys -> Values]
      /\ asked'[k] = v /\ \A j \in Keys : j # k => asked'[j] = asked[j]
  BY <1>3, <1>4, <1>5 DEF DesiredIsAsked
<1>7. \A j \in Keys : wanted[j] # NoValue =>
        wanted[j] \in Wishes(j) /\ (asked'[j] # NoValue => asked'[j] = wanted[j])
  <2> SUFFICES ASSUME NEW j \in Keys, wanted[j] # NoValue
               PROVE  wanted[j] \in Wishes(j) /\ (asked'[j] # NoValue => asked'[j] = wanted[j])
    OBVIOUS
  <2>1. CASE j = k
    BY <1>6, <2>1
  <2>2. CASE j # k
    BY <1>5, <1>6, <2>2 DEF DesiredIsAsked
  <2>3. QED
    BY <2>1, <2>2
<1> HIDE DEF wanted
<1>8. /\ doc \in Docs /\ WishesOnly(doc) /\ DOMAIN doc \subseteq Keys
      /\ \A j \in DOMAIN doc : doc[j] = wanted[j] /\ wanted[j] # NoValue
  BY <1>6, <1>7, DeltaIs
<1> HIDE DEF doc
<1>9. msg \in Messages /\ msg.kind = "delta" /\ msg.doc = doc /\ \A j : Carries(msg, j) <=> j \in DOMAIN doc
  BY <1>8 DEF Messages, Carries
<1> HIDE DEF msg
<1>10. toDevice \in Seq(Messages)
  BY <1>5 DEF QueueOK
<1>11. QueueOK'
  <2>1. CASE toDevice' = toDevice
    BY <1>5, <2>1 DEF QueueOK
  <2>2. CASE toDevice' = Append(toDevice, msg)
    <3>1. /\ toDevice' \in Seq(Messages) /\ DOMAIN toDevice = 1..Len(toDevice)
          /\ DOMAIN toDevice' = 1..(Len(toDevice) + 1) /\ Len(toDevice) \in Nat
          /\ \A i \in 1..Len(toDevice) : toDevice'[i] = toDevice[i]
          /\ toDevice'[Len(toDevice) + 1] = msg
      BY <1>9, <1>10, <2>2, AppendProperties, LenProperties
    <3>2. \A n \in DOMAIN toDevice' : toDevice'[n] = msg \/ (n \in DOMAIN toDevice /\ toDevice'[n] = toDevice[n])
      BY <3>1
    <3>3. \A n \in DOMAIN toDevice' : toDevice'[n].kind = "delta" => WishesOnly(toDevice'[n].doc)
      BY <1>5, <1>8, <1>9, <3>2 DEF QueueOK
    <3>4. QED
      BY <3>1, <3>3 DEF QueueOK, WishesOnly
  <2>3. QED
    BY <1>3, <2>1, <2>2
<1>12. DesiredIsAsked'
  BY <1>3, <1>6, <1>7 DEF DesiredIsAsked, Wishes
<1>13. UNCHANGED <<settings, meat_probe_err, b_desired, xcount, controlTimeCount, at>>
  BY DEF AppAsks, loop
<1>14. OnItsWay'
  <2> SUFFICES ASSUME NEW j \in Keys, NEW w, w = asked'[j], w # NoValue, j \notin missed'
               PROVE  LastSays(toDevice', j, w) \/ (Silent(toDevice', j) /\ IsSet(j, w)')
    BY WayGoesOn, Zenon
  <2>1. CASE j \in DOMAIN doc
    <3>1. toDevice' = Append(toDevice, msg)
      BY <1>3, <2>1
    <3>2. doc[j] = w
      BY <1>7, <1>8, <2>1
    <3>3. QED
      BY <1>9, <1>10, <2>1, <3>1, <3>2, QueueGrows
  <2>2. CASE j \notin DOMAIN doc
    <3>1. j # k /\ asked[j] = w /\ j \notin missed
      BY <1>3, <1>6, <2>2
    <3>2. LastSays(toDevice, j, w) \/ (Silent(toDevice, j) /\ IsSet(j, w)')
      BY <1>5, <1>13, <3>1, StaysSet DEF OnItsWay
    <3>3. CASE toDevice' = toDevice
      BY <3>2, <3>3
    <3>4. CASE toDevice' = Append(toDevice, msg)
      BY <1>9, <1>10, <2>2, <3>2, <3>4, QueueGrows
    <3>5. QED
      BY <1>3, <3>3, <3>4
  <2>3. QED
    BY <2>1, <2>2
<1>15. missed' \subseteq Keys
  BY <1>3, <1>5, <1>8 DEF ShadowTypeOK
<1>16. QED
  BY <1>11, <1>12, <1>13, <1>14, <1>15, QuietKeeps

\* A report empties the desired section.
LEMMA ReportTaken == IInv /\ CloudTakesReport => IInv'
<1> SUFFICES ASSUME IInv, CloudTakesReport PROVE IInv'
  OBVIOUS
<1>1. /\ UNCHANGED <<settings, meat_probe_err, b_desired, xcount, controlTimeCount, at,
                     asked, missed, toDevice>>
      /\ desired' = Nothing
  BY DEF CloudTakesReport, loop
<1>2. QueueOK' /\ missed' \subseteq Keys
  BY <1>1 DEF IInv, QueueOK, ShadowTypeOK
<1>3. Nothing \in [Keys -> Values] /\ \A k \in Keys : Nothing[k] = NoValue
  BY DEF Nothing, Values
<1>4. DesiredIsAsked'
  BY <1>1, <1>3 DEF IInv, DesiredIsAsked
<1>5. OnItsWay'
  BY <1>1 DEF IInv, OnItsWay, settings, temps, IsSet
<1>6. QED
  BY <1>1, <1>2, <1>4, <1>5, QuietKeeps

\* The document that answers a request for the shadow is not a delta.
LEMMA GetAnswered == IInv /\ CloudAnswersGet => IInv'
<1> SUFFICES ASSUME IInv, CloudAnswersGet PROVE IInv'
  OBVIOUS
<1>1. /\ UNCHANGED <<settings, meat_probe_err, b_desired, xcount, controlTimeCount, at,
                     asked, desired, missed>>
      /\ toDevice' = toDevice \/ toDevice' = Append(toDevice, GetMsg)
  BY DEF CloudAnswersGet, loop, cloud
<1>2. Nothing \in [Keys -> Values]
  BY DEF Nothing, Values
<1>3. GetMsg \in Messages /\ GetMsg.kind # "delta" /\ \A k : ~Carries(GetMsg, k)
  BY <1>2 DEF GetMsg, Messages, Docs, Carries
<1>4. toDevice \in Seq(Messages)
  BY DEF IInv, QueueOK
<1>5. CASE toDevice' = toDevice
  <2>1. UNCHANGED seen
    BY <1>1, <1>5 DEF seen
  <2>2. QED
    BY <2>1, SeenKeeps
<1>6. CASE toDevice' = Append(toDevice, GetMsg)
  <2>1. /\ toDevice' \in Seq(Messages) /\ DOMAIN toDevice = 1..Len(toDevice)
        /\ DOMAIN toDevice' = 1..(Len(toDevice) + 1) /\ Len(toDevice) \in Nat
        /\ \A i \in 1..Len(toDevice) : toDevice'[i] = toDevice[i]
        /\ toDevice'[Len(toDevice) + 1] = GetMsg
    BY <1>3, <1>4, <1>6, AppendProperties, LenProperties
  <2>2. \A n \in DOMAIN toDevice' : toDevice'[n] = GetMsg \/ (n \in DOMAIN toDevice /\ toDevice'[n] = toDevice[n])
    BY <2>1
  <2>3. \A n \in DOMAIN toDevice' : toDevice'[n].kind = "delta" => WishesOnly(toDevice'[n].doc)
    BY <1>3, <2>2 DEF IInv, QueueOK
  <2>4. QueueOK'
    BY <2>1, <2>3 DEF QueueOK, WishesOnly
  <2>5. DesiredIsAsked' /\ missed' \subseteq Keys
    BY <1>1 DEF IInv, DesiredIsAsked, ShadowTypeOK
  <2>6. OnItsWay'
    <3> SUFFICES ASSUME NEW k \in Keys, NEW v, v = asked'[k], v # NoValue, k \notin missed'
                 PROVE  LastSays(toDevice', k, v) \/ (Silent(toDevice', k) /\ IsSet(k, v)')
      BY WayGoesOn, Zenon
    <3>1. LastSays(toDevice, k, v) \/ (Silent(toDevice, k) /\ IsSet(k, v)')
      BY <1>1, StaysSet DEF IInv, OnItsWay
    <3>2. QED
      BY <1>3, <1>4, <1>6, <3>1, QueueGrows
  <2>7. QED
    BY <1>1, <2>4, <2>5, <2>6, QuietKeeps
<1>7. QED
  BY <1>1, <1>5, <1>6

\* What a lost delta asked is missed.
LEMMA LossKeeps == IInv /\ MessageLost => IInv'
<1> SUFFICES ASSUME IInv, MessageLost PROVE IInv'
  OBVIOUS
<1>1. UNCHANGED <<settings, meat_probe_err, b_desired, xcount, controlTimeCount, at, asked, desired>>
  BY DEF MessageLost, loop
<1>2. CASE UNCHANGED <<toDevice, missed>>
  <2>1. UNCHANGED seen
    BY <1>1, <1>2 DEF seen
  <2>2. QED
    BY <2>1, SeenKeeps
<1>3. CASE /\ toDevice # <<>> /\ toDevice' = Tail(toDevice)
           /\ missed' = missed \cup DeltaKeys(<<Head(toDevice)>>)
  <2>1. QueueOK' /\ toDevice \in Seq(Messages)
    BY <1>3, TailIsOK DEF IInv, QueueOK
  <2>2. DesiredIsAsked'
    BY <1>1 DEF IInv, DesiredIsAsked
  <2>3. \A k : k \in DeltaKeys(<<Head(toDevice)>>) <=> Carries(Head(toDevice), k)
    BY DeltaKeysAre
  <2>4. Head(toDevice) = toDevice[1] /\ 1 \in DOMAIN toDevice
    BY <1>3, <2>1, QueueShrinks
  <2>5. \A k : Carries(Head(toDevice), k) => k \in Keys
    BY <2>4 DEF IInv, QueueOK, WishesOnly, Carries
  <2>6. missed' \subseteq Keys
    BY <1>3, <2>3, <2>5 DEF IInv, ShadowTypeOK
  <2>7. OnItsWay'
    <3> SUFFICES ASSUME NEW k \in Keys, NEW v, v = asked'[k], v # NoValue, k \notin missed'
                 PROVE  LastSays(toDevice', k, v) \/ (Silent(toDevice', k) /\ IsSet(k, v)')
      BY WayGoesOn, Zenon
    <3>1. k \notin missed /\ ~Carries(Head(toDevice), k)
      BY <1>3, <2>3
    <3>2. LastSays(toDevice, k, v) \/ (Silent(toDevice, k) /\ IsSet(k, v)')
      BY <1>1, <3>1, StaysSet DEF IInv, OnItsWay
    <3>3. QED
      BY <1>3, <2>1, <3>1, <3>2, QueueShrinks
  <2>8. QED
    BY <1>1, <2>1, <2>2, <2>6, <2>7, QuietKeeps
<1>4. QED
  BY <1>2, <1>3 DEF MessageLost

\* The deltas lost with the WiFi are known to be lost.
LEMMA WifiLossKeeps == IInv /\ WifiLost => IInv'
<1> SUFFICES ASSUME IInv, WifiLost PROVE IInv'
  OBVIOUS
<1>1. /\ UNCHANGED <<settings, meat_probe_err, b_desired, xcount, controlTimeCount, at, asked, desired>>
      /\ missed' = missed \cup DeltaKeys(toDevice)
      /\ toDevice' = <<>>
  BY DEF WifiLost, loop
<1>2. QueueOK' /\ DesiredIsAsked'
  BY <1>1 DEF IInv, QueueOK, DesiredIsAsked
<1>3. \A k : k \in DeltaKeys(toDevice) <=> \E n \in DOMAIN toDevice : Carries(toDevice[n], k)
  BY DeltaKeysAre
<1>4. missed' \subseteq Keys
  BY <1>1, <1>3 DEF IInv, ShadowTypeOK, QueueOK, WishesOnly, Carries
<1>5. OnItsWay'
  <2> SUFFICES ASSUME NEW k \in Keys, NEW v, v = asked'[k], v # NoValue, k \notin missed'
               PROVE  LastSays(toDevice', k, v) \/ (Silent(toDevice', k) /\ IsSet(k, v)')
    BY WayGoesOn, Zenon
  <2>1. k \notin missed /\ Silent(toDevice, k)
    BY <1>1, <1>3 DEF Silent
  <2>2. ~LastSays(toDevice, k, v)
    BY <2>1 DEF Silent, LastSays
  <2>3. IsSet(k, v)'
    BY <1>1, <2>1, <2>2, StaysSet DEF IInv, OnItsWay
  <2>4. QED
    BY <1>1, <2>3 DEF Silent
<1>6. QED
  BY <1>1, <1>2, <1>4, <1>5, QuietKeeps

\* The WiFi's return and an upgrade touch no request.
LEMMA SurroundingsKeep == IInv /\ (WifiBack \/ UpgradeStarts \/ UpgradeEnds) => IInv'
<1> SUFFICES ASSUME IInv, WifiBack \/ UpgradeStarts \/ UpgradeEnds PROVE IInv'
  OBVIOUS
<1>1. UNCHANGED seen
  BY DEF WifiBack, UpgradeStarts, UpgradeEnds, seen, loop, cloud
<1>2. QED
  BY <1>1, SeenKeeps

\* What is changed by hand is no longer asked for; nothing else is changed.
LEMMA LocalKeeps == IInv /\ Local => IInv'
<1> SUFFICES ASSUME IInv, Local PROVE IInv'
  OBVIOUS
<1>1. /\ UNCHANGED <<set_temp_meat, setmeat_probe_ok, timer_all, timer_alarm, b_desired, xcount,
                     controlTimeCount, at, desired, missed, toDevice>>
      /\ ShadowTypeOK /\ QueueOK /\ DesiredIsAsked /\ OnItsWay
  BY DEF Local, loop, IInv
<1>2. /\ b_power_on' \in BOOLEAN /\ f_c_f' \in BOOLEAN /\ set_temp_ok' \in BOOLEAN
      /\ set_temp_grill' \in DegreesF /\ meat_probe_err' \subseteq Probes
  <2>1. \A t \in Temperatures : t \in DegreesF
    BY TargetInRange, Zenon DEF Target
  <2>2. b_power_on' \in BOOLEAN /\ f_c_f' \in BOOLEAN
    BY <1>1 DEF Local, ShadowTypeOK
  <2>3. set_temp_ok' \in BOOLEAN /\ set_temp_grill' \in DegreesF
    BY <1>1, <2>1 DEF Local, ShadowTypeOK
  <2>4. meat_probe_err' \subseteq Probes
    BY <1>1 DEF Local, ShadowTypeOK, SymDiff
  <2>5. QED
    BY <2>2, <2>3, <2>4
<1>3. ShadowTypeOK'
  BY <1>1, <1>2, Zenon DEF ShadowTypeOK
<1>4. QueueOK'
  BY <1>1 DEF QueueOK
<1>5. /\ asked' \in [Keys -> Values]
      /\ \A k \in Keys : asked'[k] # NoValue => asked'[k] = asked[k] /\ \A v : IsSet(k, v) => IsSet(k, v)'
  <2>1. CASE f_c_f' = ~f_c_f /\ asked' = [asked EXCEPT !["fah"] = NoValue]
             /\ UNCHANGED <<b_power_on, set_temp_grill>>
    BY <1>1, <2>1, Wished DEF DesiredIsAsked, Values, IsSet
  <2>2. CASE asked' = [asked EXCEPT !["grill"] = NoValue] /\ UNCHANGED <<b_power_on, f_c_f>>
    BY <1>1, <2>2, Wished DEF DesiredIsAsked, Values, IsSet
  <2>3. CASE asked' = [asked EXCEPT !["pwrOn"] = NoValue] /\ UNCHANGED <<f_c_f, set_temp_grill>>
    BY <1>1, <2>3, Wished DEF DesiredIsAsked, Values, IsSet
  <2>4. CASE UNCHANGED <<b_power_on, f_c_f, set_temp_grill, asked>>
    BY <1>1, <2>4 DEF DesiredIsAsked, IsSet
  <2>5. QED
    BY <2>1, <2>2, <2>3, <2>4 DEF Local
<1>6. DesiredIsAsked'
  BY <1>1, <1>5 DEF DesiredIsAsked
<1>7. OnItsWay'
  <2> SUFFICES ASSUME NEW k \in Keys, NEW v, v = asked'[k], v # NoValue, k \notin missed'
               PROVE  LastSays(toDevice', k, v) \/ (Silent(toDevice', k) /\ IsSet(k, v)')
    BY WayGoesOn, Zenon
  <2>1. QED
    BY <1>1, <1>5 DEF OnItsWay
<1>8. QED
  BY <1>3, <1>4, <1>6, <1>7 DEF IInv

-----------------------------------------------------------------------------
(* The theorems.                                                           *)

\* Every step of the device, the service and the surroundings keeps the invariant.
LEMMA StepKeeps == IInv /\ [ShadowNext]_shadowVars => IInv'
<1> SUFFICES ASSUME IInv, [ShadowNext]_shadowVars PROVE IInv'
  OBVIOUS
<1>1. CASE TaskStep
  BY <1>1, ControlKeeps, YieldKeeps DEF TaskStep
<1>2. CASE CloudStep
  BY <1>2, ReportTaken, GetAnswered DEF CloudStep
<1>3. CASE AppAsks
  BY <1>3, AppAsksKeeps
<1>4. CASE MessageLost
  BY <1>4, LossKeeps
<1>5. CASE WifiLost
  BY <1>5, WifiLossKeeps
<1>6. CASE WifiBack \/ UpgradeStarts \/ UpgradeEnds
  BY <1>6, SurroundingsKeep
<1>7. CASE Local
  BY <1>7, LocalKeeps
<1>8. CASE UNCHANGED shadowVars
  <2>1. UNCHANGED seen
    BY <1>8 DEF shadowVars, seen, loop, cloud
  <2>2. QED
    BY <2>1, SeenKeeps
<1>9. QED
  BY <1>1, <1>2, <1>3, <1>4, <1>5, <1>6, <1>7, <1>8 DEF ShadowNext

\* The last request of the app for each key is the last on its way to the device,
\* or set there, or known to be lost: dealAwsData loses none and overrules none.
THEOREM ShadowInvariant == ShadowSpec => []IInv
<1>1. ShadowInit => IInv
  BY Initially
<1>2. IInv /\ [ShadowNext]_shadowVars => IInv'
  BY StepKeeps
<1>3. QED
  BY <1>1, <1>2, PTL DEF ShadowSpec

\* The device's settings, counters and flags keep their types.
THEOREM ShadowTyped == ShadowSpec => []ShadowTypeOK
<1>1. IInv => ShadowTypeOK
  BY DEF IInv
<1>2. QED
  BY <1>1, ShadowInvariant, PTL

\* A request that was neither refused nor overruled nor lost is set or on its way.
THEOREM RequestsKept == ShadowSpec => []RequestNotForgotten
<1>1. IInv => RequestNotForgotten
  <2> SUFFICES ASSUME IInv, NEW k \in Keys, asked[k] # NoValue, k \notin missed, ~IsSet(k, asked[k])
               PROVE  \E n \in DOMAIN toDevice :
                        k \in DeltaKeys(<<toDevice[n]>>) /\ toDevice[n].doc[k] = asked[k]
    BY DEF RequestNotForgotten
  <2>1. LastSays(toDevice, k, asked[k])
    BY DEF IInv, OnItsWay
  <2>2. PICK n \in DOMAIN toDevice : Carries(toDevice[n], k) /\ toDevice[n].doc[k] = asked[k]
    BY <2>1 DEF LastSays
  <2>3. k \in DeltaKeys(<<toDevice[n]>>)
    BY <2>2 DEF DeltaKeys, Carries
  <2>4. QED
    BY <2>2, <2>3
<1>2. QED
  BY <1>1, ShadowInvariant, PTL

\* What the report tells of the grill and of a probe that is set and plugged in.
LEMMA Told ==
  /\ Report["grill"] = Number(set_temp_grill)
  /\ \A p \in Probes : p \in setmeat_probe_ok /\ p \notin meat_probe_err
       => Report[p] = Number(set_temp_meat[p])
<1> DEFINE Value(k) == CASE k = "pwrOn" -> b_power_on
                         [] k = "fah"   -> ~f_c_f
                         [] k = "grill" -> Number(set_temp_grill)
                         [] k = "timer" -> ReportTimer
                         [] OTHER       -> ReportProbe(k)
<1>1. \A k \in Keys : Report[k] = Value(k)
  BY DEF Report
<1>2. Value("grill") = Number(set_temp_grill)
  OBVIOUS
<1>3. \A p \in Probes : Value(p) = ReportProbe(p)
  BY Wished, Zenon
<1> HIDE DEF Value
<1>4. \A p \in Probes : p \in setmeat_probe_ok /\ p \notin meat_probe_err
        => ReportProbe(p) = Number(set_temp_meat[p])
  BY DEF ReportProbe
<1>5. QED
  BY <1>1, <1>2, <1>3, <1>4, Wished

\* Converting the set point to the unit of the app and back does not let it drift.
THEOREM EchoBounded == ShadowSpec => []EchoWithinOneDegree
<1>1. IInv => EchoWithinOneDegree
  <2> SUFFICES ASSUME IInv, NEW k \in {"grill"} \cup (setmeat_probe_ok \ meat_probe_err)
               PROVE  LET n == Report[k]
                          t == Target(f_c_f, n)
                      IN IF f_c_f THEN ToCelsius(t) \in (n - 1)..(n + 1) ELSE t = n
    BY DEF EchoWithinOneDegree
  <2>1. PICK t \in DegreesF : Report[k] = Number(t)
    <3>1. ShadowTypeOK
      BY DEF IInv
    <3>2. CASE k = "grill"
      BY <3>1, <3>2, Told DEF ShadowTypeOK
    <3>3. CASE k \in setmeat_probe_ok /\ k \notin meat_probe_err
      <4>1. k \in Probes /\ set_temp_meat[k] \in DegreesF
        BY <3>1, <3>3 DEF ShadowTypeOK
      <4>2. QED
        BY <3>3, <4>1, Told
    <3>4. QED
      BY <3>2, <3>3
  <2>2. CASE f_c_f
    BY <2>1, <2>2, ThereAndBack DEF Number, Target
  <2>3. CASE ~f_c_f
    BY <2>1, <2>3 DEF Number, Target
  <2>4. QED
    BY <2>2, <2>3
<1>2. QED
  BY <1>1, ShadowInvariant, PTL

=============================================================================
