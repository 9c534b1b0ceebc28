------------------------ MODULE SettingsStoreProofs ------------------------
(***************************************************************************)
(* What a boot may find, for any settings, any order of them and any number *)
(* of images, changes and failures.                                        *)
(***************************************************************************)
EXTENDS SettingsStore, SequenceTheorems, TLAPS

Values == Nat \X Nat
Stamps == {"nvsod", "nvsod1"}
Names == STRING \cup Stamps
Held == {h \in [Keys -> Nat \cup Values \cup {Absent}] :
           /\ \A k \in Settings : h[k] \in Values \cup {Absent}
           /\ \A k \in Stamps : h[k] \in Nat \cup {Absent}}

\* The number image g has for a half of the stamp.
Half(k, g) == IF k = "nvsod" THEN Firmware[g][1] ELSE Firmware[g][2]

Types ==
  /\ firmware \in DOMAIN Firmware
  /\ ram \in [Settings -> Values]
  /\ flash \in Held /\ pending \in Held
  /\ done \in -1..Len(Order)
  /\ whole \in BOOLEAN
  /\ since \in [Settings -> SUBSET Values]
  /\ during \in [Settings -> SUBSET Values]
  /\ savedBy \in 0..firmware
  /\ changes \in Nat

\* The flash holds stamps of images that ran.
FlashStamps ==
  \A k \in Stamps : flash[k] = Absent \/ \E g \in 1..firmware : flash[k] = Half(k, g)

\* What is pending is of this save.
PendingNow ==
  /\ \A k \in Stamps : pending[k] \in {Absent, Half(k, firmware)}
  /\ \A k \in Settings : pending[k] = Absent \/ (done # -1 /\ pending[k] \in during[k])

\* What a save may have seen is remembered.
Remembered ==
  done # -1 => \A k \in Settings : ram[k] \in during[k] /\ during[k] \subseteq since[k]

\* A save without a failure has set every key it passed.
WholeSoFar == whole /\ done # -1 => \A i \in 1..done : pending[Order[i]] # Absent

\* Once saved, what an upgrade keeps is in flash, under a stamp.
NetworkInFlash ==
  savedBy # 0 =>
    /\ \A k \in Stamps : flash[k] # Absent
    /\ \A k \in Network : flash[k] \in since[k]

\* Once this image saved, everything is, under its stamp.
AllInFlash ==
  savedBy = firmware =>
    /\ \A k \in Stamps : flash[k] = Half(k, firmware)
    /\ \A k \in Settings : flash[k] \in since[k]

IInv ==
  /\ Types /\ FlashStamps /\ PendingNow /\ Remembered /\ WholeSoFar
  /\ NetworkInFlash /\ AllInFlash

-----------------------------------------------------------------------------
(* The keys.                                                               *)

\* write_nvc passes every setting and both halves of the stamp.
LEMMA OrderIsKeys ==
  /\ Len(Order) \in Nat
  /\ Keys = {Order[i] : i \in 1..Len(Order)}
  /\ Keys = Settings \cup Stamps
  /\ Settings \cap Stamps = {}
<1> DEFINE Stamp2 == <<"nvsod", "nvsod1">>
           e == Len(Early)
           l == Len(Late)
<1>1. /\ Early \in Seq(Names) /\ Late \in Seq(Names)
      /\ e \in Nat /\ l \in Nat
  <2>1. Early \in Seq(STRING) /\ Late \in Seq(STRING)
    BY StoreAssumption
  <2>2. \A S, T : S \subseteq T => Seq(S) \subseteq Seq(T)
    BY SeqMonotonic
  <2>3. QED
    BY <2>1, <2>2 DEF Names
<1>2. Stamp2 \in Seq(Names)
  <2>1. \A S, a, b : a \in S /\ b \in S => <<a, b>> \in Seq(S)
    OBVIOUS
  <2>2. "nvsod" \in Names /\ "nvsod1" \in Names
    BY DEF Names, Stamps
  <2>3. QED
    BY <2>1, <2>2, Zenon
<1>2a. Len(Stamp2) = 2 /\ Stamp2[1] = "nvsod" /\ Stamp2[2] = "nvsod1"
  OBVIOUS
<1> HIDE DEF Stamp2
<1>3. /\ Early \o Stamp2 \in Seq(Names) /\ Len(Early \o Stamp2) = Len(Early) + Len(Stamp2)
      /\ \A i \in 1..(Len(Early) + Len(Stamp2)) :
           (Early \o Stamp2)[i] = IF i <= Len(Early) THEN Early[i] ELSE Stamp2[i - Len(Early)]
  BY <1>1, <1>2, ConcatProperties, Zenon
<1>4. Order = (Early \o Stamp2) \o Late
  BY DEF Order, Stamp2
<1> DEFINE Start == Early \o Stamp2
<1> HIDE DEF Start
<1>5a. Order = Start \o Late /\ Start \in Seq(Names)
  BY <1>3, <1>4 DEF Start
<1>5b. /\ Order \in Seq(Names) /\ Len(Order) = Len(Start) + Len(Late)
      /\ \A i \in 1..(Len(Start) + Len(Late)) :
           Order[i] = IF i <= Len(Start) THEN Start[i] ELSE Late[i - Len(Start)]
  BY <1>1, <1>5a, ConcatProperties, Zenon
<1>5c. /\ Len(Start) = e + 2
       /\ \A i \in 1..(e + 2) : Start[i] = IF i <= e THEN Early[i] ELSE Stamp2[i - e]
  BY <1>2a, <1>3 DEF Start
<1> HIDE DEF e, l
<1>5. /\ Order \in Seq(Names) /\ Len(Order) = e + 2 + l
      /\ \A i \in 1..(e + 2 + l) : Order[i] = IF i <= e + 2 THEN Start[i] ELSE Late[i - (e + 2)]
  BY <1>5b, <1>5c DEF l
<1>6. /\ \A i \in 1..e : Order[i] = Early[i]
      /\ Order[e + 1] = "nvsod" /\ Order[e + 2] = "nvsod1"
      /\ \A i \in 1..l : Order[e + 2 + i] = Late[i]
  BY <1>1, <1>2a, <1>5, <1>5c
<1>7. Keys = {Order[i] : i \in 1..Len(Order)}
  <2>1. DOMAIN Order = 1..Len(Order)
    BY <1>5
  <2>2. QED
    BY <2>1 DEF Keys, Range
<1>8. Settings = {Early[i] : i \in 1..e} \cup {Late[i] : i \in 1..l}
  <2>1. DOMAIN Early = 1..e /\ DOMAIN Late = 1..l
    BY <1>1 DEF e, l
  <2>2. QED
    BY <2>1 DEF Settings, Range
<1>9. Settings \cup Stamps \subseteq Keys
  <2>1. \A i \in 1..e : Early[i] \in Keys
    <3>1. \A i \in 1..e : i \in 1..Len(Order)
      BY <1>1, <1>5
    <3>2. QED
      BY <1>6, <1>7, <3>1
  <2>2. \A i \in 1..l : Late[i] \in Keys
    <3>1. \A i \in 1..l : e + 2 + i \in 1..Len(Order)
      BY <1>1, <1>5
    <3>2. QED
      BY <1>6, <1>7, <3>1
  <2>3. e + 1 \in 1..Len(Order) /\ e + 2 \in 1..Len(Order)
    BY <1>1, <1>5
  <2>4. "nvsod" \in Keys /\ "nvsod1" \in Keys
    BY <1>6, <1>7, <2>3
  <2>5. QED
    BY <1>8, <2>1, <2>2, <2>4 DEF Stamps
<1>10. Keys \subseteq Settings \cup Stamps
  <2> SUFFICES ASSUME NEW i \in 1..Len(Order)
               PROVE  Order[i] \in Settings \cup Stamps
    BY <1>7
  <2>1. CASE i \in 1..e
    BY <1>6, <1>8, <2>1
  <2>2. CASE i = e + 1 \/ i = e + 2
    BY <1>6, <2>2 DEF Stamps
  <2>3. CASE i - (e + 2) \in 1..l
    <3>1. i = e + 2 + (i - (e + 2))
      BY <1>1, <1>5
    <3>2. Order[i] = Late[i - (e + 2)]
      BY <1>6, <2>3, <3>1
    <3>3. QED
      BY <1>8, <2>3, <3>2
  <2>4. QED
    BY <1>1, <1>5, <2>1, <2>2, <2>3
<1>11. Len(Order) \in Nat
  BY <1>1, <1>5
<1>12. Settings \cap Stamps = {}
  BY StoreAssumption DEF Stamps
<1>13. QED
  BY <1>7, <1>9, <1>10, <1>11, <1>12

\* The halves of a stamp are numbers, never an absent key; the version is not zero.
LEMMA Halves ==
  ASSUME NEW k \in Stamps, NEW g \in DOMAIN Firmware
  PROVE  /\ Half(k, g) \in Nat
         /\ Half(k, g) # Absent
         /\ Half("nvsod", g) # 0
         /\ Firmware[g] = <<Half("nvsod", g), Half("nvsod1", g)>>
<1>1. Firmware[g] \in (Nat \ {0}) \X Nat
  BY StoreAssumption
<1>2. QED
  BY <1>1, StoreAssumption DEF Half, Stamps

\* A key of the flash is a setting's or a half of the stamp, and none is both.
LEMMA TwoKinds ==
  /\ Settings \subseteq Keys /\ Stamps \subseteq Keys /\ Keys = Settings \cup Stamps
  /\ Network \subseteq Settings
  /\ \A k \in Settings : k # "nvsod" /\ k # "nvsod1"
  /\ Stamps = {"nvsod", "nvsod1"}
BY OrderIsKeys, StoreAssumption DEF Stamps

\* A value is not the mark of an absent key.
LEMMA ValuesPresent == /\ \A v \in Values : v # Absent
                       /\ \A n \in Nat : n # Absent
BY StoreAssumption DEF Values

\* The images are numbered from one.
LEMMA Images ==
  /\ Len(Firmware) \in Nat \ {0}
  /\ DOMAIN Firmware = 1..Len(Firmware)
BY StoreAssumption

\* What read_nvc loads from a flash is values.
LEMMA ReadValues ==
  ASSUME NEW h \in Held, NEW f \in DOMAIN Firmware
  PROVE  Read(h, f) \in [Settings -> Values]
<1>1. f \in Nat
  BY Images
<1>2. \A k \in Settings : h[k] # Absent => h[k] \in Values
  BY DEF Held
<1>3. <<f, 0>> \in Values
  BY <1>1 DEF Values
<1>4. QED
  BY <1>2, <1>3 DEF Read

\* A flash that cannot be read in part seems to hold less.
LEMMA WithoutHeld ==
  ASSUME NEW h \in Held, NEW failed
  PROVE  Without(failed, h) \in Held
<1>1. h \in [Keys -> Nat \cup Values \cup {Absent}]
  BY DEF Held
<1>2. Without(failed, h) \in [Keys -> Nat \cup Values \cup {Absent}]
  BY <1>1 DEF Without
<1>3. \A k \in Keys : Without(failed, h)[k] \in {h[k], Absent}
  BY DEF Without
<1>4. QED
  BY <1>2, <1>3, TwoKinds DEF Held

\* An empty flash holds no key.
LEMMA EmptyHeld == Empty \in Held /\ \A k \in Keys : Empty[k] = Absent
BY TwoKinds DEF Empty, Held

\* A mixture of what was in flash and what was pending keeps what the flash is for.
LEMMA PersistKeeps ==
  ASSUME IInv, NEW S, Persist(S)
  PROVE  /\ flash' \in Held
         /\ \A k \in Stamps : flash'[k] = Absent \/ \E g \in 1..firmware : flash'[k] = Half(k, g)
         /\ savedBy # 0 =>
              /\ \A k \in Stamps : flash'[k] # Absent
              /\ \A k \in Network : flash'[k] \in since[k]
         /\ savedBy = firmware =>
              /\ \A k \in Stamps : flash'[k] = Half(k, firmware)
              /\ \A k \in Settings : flash'[k] \in since[k]
<1> USE DEF IInv
<1>1. \A k \in Keys : flash'[k] = flash[k] \/ (flash'[k] = pending[k] /\ pending[k] # Absent)
  BY DEF Persist
<1>2. flash' \in Held
  <2>1. /\ flash \in [Keys -> Nat \cup Values \cup {Absent}]
        /\ pending \in [Keys -> Nat \cup Values \cup {Absent}]
    BY DEF Types, Held
  <2>2. flash' \in [Keys -> Nat \cup Values \cup {Absent}]
    BY <2>1 DEF Persist
  <2>3. \A k \in Settings : flash'[k] \in Values \cup {Absent}
    BY <1>1, TwoKinds DEF Types, Held
  <2>4. \A k \in Stamps : flash'[k] \in Nat \cup {Absent}
    BY <1>1, TwoKinds DEF Types, Held
  <2>5. QED
    BY <2>2, <2>3, <2>4 DEF Held
<1>3. firmware \in 1..firmware
  BY Images DEF Types
<1>4. ASSUME NEW k \in Stamps
      PROVE  flash'[k] = Absent \/ \E g \in 1..firmware : flash'[k] = Half(k, g)
  BY <1>1, <1>3, <1>4, TwoKinds DEF FlashStamps, PendingNow
<1>5. ASSUME savedBy # 0
      PROVE  /\ \A k \in Stamps : flash'[k] # Absent
             /\ \A k \in Network : flash'[k] \in since[k]
  BY <1>1, <1>5, TwoKinds DEF NetworkInFlash, PendingNow, Remembered
<1>6. ASSUME savedBy = firmware
      PROVE  /\ \A k \in Stamps : flash'[k] = Half(k, firmware)
             /\ \A k \in Settings : flash'[k] \in since[k]
  BY <1>1, <1>6, TwoKinds DEF AllInFlash, PendingNow, Remembered
<1>7. QED
  BY <1>2, <1>4, <1>5, <1>6

-----------------------------------------------------------------------------
(* The invariant, action by action.                                        *)

\* Nothing was saved at the start.
LEMMA Initially == StoreInit => IInv
<1> SUFFICES ASSUME StoreInit PROVE IInv
  OBVIOUS
<1> USE DEF StoreInit
<1>1. Types
  <2>1. 1 \in DOMAIN Firmware /\ <<1, 0>> \in Values
    BY Images DEF Values
  <2>2. Len(Order) \in Nat
    BY OrderIsKeys
  <2>3. QED
    BY <2>1, <2>2, EmptyHeld DEF Types
<1>2. \A k \in Keys : flash[k] = Absent /\ pending[k] = Absent
  BY EmptyHeld
<1>3. FlashStamps /\ PendingNow
  BY <1>2, TwoKinds DEF FlashStamps, PendingNow
<1>4. Remembered /\ WholeSoFar /\ NetworkInFlash /\ AllInFlash
  BY DEF Remembered, WholeSoFar, NetworkInFlash, AllInFlash
<1>5. QED
  BY <1>1, <1>3, <1>4 DEF IInv

\* The start of a save sets nothing.
LEMMA OpenKeeps == IInv /\ Open => IInv'
<1> SUFFICES ASSUME IInv, Open PROVE IInv'
  OBVIOUS
<1> USE DEF IInv, Open
<1>1. Types'
  <2>1. \A k \in Settings : ram[k] \in Values /\ since[k] \in SUBSET Values
    BY DEF Types
  <2>2. since' \in [Settings -> SUBSET Values] /\ during' \in [Settings -> SUBSET Values]
    BY <2>1
  <2>3. QED
    BY <2>2, OrderIsKeys DEF Types
<1>2. \A k \in Settings : since[k] \subseteq since'[k] /\ ram[k] \in since'[k] /\ during'[k] = {ram[k]}
  OBVIOUS
<1>3. FlashStamps'
  BY DEF FlashStamps, Half
<1>4. NetworkInFlash' /\ AllInFlash'
  BY <1>2, TwoKinds DEF NetworkInFlash, AllInFlash, Half
<1>5. PendingNow'
  BY DEF PendingNow, Half
<1>6. Remembered'
  BY <1>2 DEF Remembered
<1>7. WholeSoFar'
  BY DEF WholeSoFar
<1>8. QED
  BY <1>1, <1>3, <1>4, <1>5, <1>6, <1>7

\* One nvs_set, also a failing one, leaves the flash as it was.
LEMMA SetKeeps == IInv /\ Set => IInv'
<1> SUFFICES ASSUME IInv, Set PROVE IInv'
  OBVIOUS
<1> DEFINE now == Order[done + 1]
<1>0. /\ UNCHANGED <<firmware, ram, flash, since, during, savedBy, changes>>
      /\ done \in 0..(Len(Order) - 1) /\ done' = done + 1
  BY DEF Set
<1>1. /\ done + 1 \in 1..Len(Order) /\ now \in Keys
      /\ done # -1 /\ done' # -1 /\ done' \in -1..Len(Order)
  BY <1>0, OrderIsKeys
<1>2. /\ now \in Settings => Value(now) = ram[now]
      /\ now \in Stamps => Value(now) = Half(now, firmware)
  BY TwoKinds DEF Value, Half
<1>3. /\ now \in Settings => Value(now) \in Values
      /\ now \in Stamps => Value(now) \in Nat
      /\ Value(now) # Absent
  <2>1. ram \in [Settings -> Values] /\ firmware \in DOMAIN Firmware
    BY DEF IInv, Types
  <2>2. now \in Settings => ram[now] \in Values /\ ram[now] # Absent
    BY <2>1, ValuesPresent
  <2>3. now \in Stamps => Half(now, firmware) \in Nat /\ Half(now, firmware) # Absent
    BY <2>1, Halves
  <2>4. now \in Settings \/ now \in Stamps
    BY <1>1, TwoKinds
  <2>5. QED
    BY <1>2, <2>2, <2>3, <2>4, Zenon
<1>4. FlashStamps' /\ NetworkInFlash' /\ AllInFlash'
  BY <1>0 DEF IInv, FlashStamps, NetworkInFlash, AllInFlash, Half
<1>5. Remembered'
  BY <1>0, <1>1 DEF IInv, Remembered
<1>6. CASE pending' = [pending EXCEPT ![now] = Value(now)] /\ UNCHANGED <<whole, faults>>
  <2> DEFINE v == Value(now)
  <2> HIDE DEF v, now
  <2>0. pending' = [pending EXCEPT ![now] = v]
    BY <1>6 DEF v
  <2>1. /\ pending'[now] = v
        /\ \A k \in Keys : k # now => pending'[k] = pending[k]
    BY <1>1, <2>0 DEF IInv, Types, Held
  <2>2. pending' \in Held
    <3>1. pending \in [Keys -> Nat \cup Values \cup {Absent}]
      BY DEF IInv, Types, Held
    <3>2. pending' \in [Keys -> Nat \cup Values \cup {Absent}]
      BY <1>1, <1>3, <2>0, <3>1, TwoKinds DEF v
    <3>3. \A k \in Settings : pending'[k] \in Values \cup {Absent}
      BY <1>3, <2>1, TwoKinds DEF v, IInv, Types, Held
    <3>4. \A k \in Stamps : pending'[k] \in Nat \cup {Absent}
      BY <1>3, <2>1, TwoKinds DEF v, IInv, Types, Held
    <3>5. QED
      BY <3>2, <3>3, <3>4 DEF Held
  <2>3. Types'
    BY <1>0, <1>1, <1>6, <2>2 DEF IInv, Types
  <2>4. PendingNow'
    <3>1. \A k \in Stamps : pending'[k] \in {Absent, Half(k, firmware)}
      BY <1>2, <2>1, TwoKinds DEF v, IInv, PendingNow
    <3>2. \A k \in Settings : pending'[k] = Absent \/ pending'[k] \in during[k]
      BY <1>1, <1>2, <2>1, TwoKinds DEF v, IInv, PendingNow, Remembered
    <3>3. QED
      BY <1>0, <1>1, <3>1, <3>2 DEF PendingNow, Half
  <2>5. WholeSoFar'
    <3> SUFFICES ASSUME whole, NEW i \in 1..(done + 1)
                 PROVE  pending'[Order[i]] # Absent
      BY <1>0, <1>6 DEF WholeSoFar
    <3>1. Order[i] \in Keys
      BY <1>0, OrderIsKeys
    <3>2. CASE Order[i] = now
      BY <1>3, <2>1, <3>2 DEF v
    <3>3. CASE Order[i] # now
      <4>1. i \in 1..done
        BY <1>0, <3>3, OrderIsKeys DEF now
      <4>2. QED
        BY <1>1, <2>1, <3>1, <3>3, <4>1 DEF IInv, WholeSoFar
    <3>4. QED
      BY <3>2, <3>3
  <2>6. QED
    BY <1>4, <1>5, <2>3, <2>4, <2>5 DEF IInv
<1>7. CASE whole' = FALSE /\ UNCHANGED pending
  <2>1. Types'
    BY <1>0, <1>1, <1>7 DEF IInv, Types
  <2>2. PendingNow'
    BY <1>0, <1>1, <1>7 DEF IInv, PendingNow, Half
  <2>3. WholeSoFar'
    BY <1>7 DEF WholeSoFar
  <2>4. QED
    BY <1>4, <1>5, <2>1, <2>2, <2>3 DEF IInv
<1>8. QED
  BY <1>6, <1>7 DEF Set

\* Nothing is pending once a save ended, by itself or with the power.
LEMMA ClosesKeeps ==
  ASSUME Closes
  PROVE  /\ done' = -1 /\ done' \in -1..Len(Order)
         /\ pending' \in Held /\ whole' \in BOOLEAN
         /\ during' \in [Settings -> SUBSET Values]
         /\ PendingNow' /\ WholeSoFar'
<1>1. \A k \in Keys : pending'[k] = Absent
  BY EmptyHeld DEF Closes
<1>2. PendingNow'
  BY <1>1, TwoKinds DEF PendingNow
<1>3. WholeSoFar'
  BY DEF Closes, WholeSoFar
<1>4. QED
  BY <1>2, <1>3, EmptyHeld, OrderIsKeys DEF Closes

\* A commit of a whole save brings every setting and the stamp to the flash.
LEMMA CommitKeeps == IInv /\ Commit => IInv'
<1> SUFFICES ASSUME IInv, Commit PROVE IInv'
  OBVIOUS
<1>0. Closes /\ done = Len(Order) /\ UNCHANGED <<firmware, ram, changes>>
  BY DEF Commit
<1>1. done # -1 /\ done \in Nat
  BY <1>0, OrderIsKeys
<1>2. PICK S : Persist(S)
  BY DEF Commit
<1>3. CASE UNCHANGED <<since, savedBy>>
  <2>1. Types'
    BY <1>0, <1>2, <1>3, ClosesKeeps, PersistKeeps DEF IInv, Types
  <2>2. FlashStamps' /\ NetworkInFlash' /\ AllInFlash'
    BY <1>0, <1>2, <1>3, PersistKeeps DEF FlashStamps, NetworkInFlash, AllInFlash, Half
  <2>3. Remembered'
    BY <1>0, <1>3, ClosesKeeps DEF IInv, Remembered
  <2>4. QED
    BY <1>0, <2>1, <2>2, <2>3, ClosesKeeps DEF IInv
<1>4. CASE Persist(Keys) /\ whole /\ since' = during /\ savedBy' = firmware
  <2>1. \A k \in Keys : flash'[k] = pending[k] /\ pending[k] # Absent
    BY <1>0, <1>1, <1>4, OrderIsKeys DEF IInv, WholeSoFar, Persist
  <2>2. /\ \A k \in Stamps : flash'[k] = Half(k, firmware)
        /\ \A k \in Settings : flash'[k] \in since'[k]
    BY <1>4, <2>1, TwoKinds DEF IInv, PendingNow
  <2>3. firmware \in DOMAIN Firmware /\ firmware \in 1..firmware /\ firmware \in 0..firmware
    BY Images DEF IInv, Types
  <2>4. Types'
    BY <1>0, <1>2, <1>4, <2>3, ClosesKeeps, PersistKeeps DEF IInv, Types
  <2>5. FlashStamps' /\ AllInFlash'
    BY <1>0, <1>4, <2>2, <2>3 DEF FlashStamps, AllInFlash, Half
  <2>6. NetworkInFlash'
    BY <2>1, <2>2, TwoKinds DEF NetworkInFlash
  <2>7. Remembered'
    BY <1>0, <1>1, <1>4, ClosesKeeps DEF IInv, Remembered
  <2>8. QED
    BY <1>0, <2>4, <2>5, <2>6, <2>7, ClosesKeeps DEF IInv
<1>5. QED
  BY <1>3, <1>4 DEF Commit

\* A boot may find any part of a save that was cut, and fail to read any of it.
LEMMA BootKeeps == IInv /\ (\E failed \in SUBSET Keys : Boot(failed)) => IInv'
<1> SUFFICES ASSUME IInv, NEW failed \in SUBSET Keys, Boot(failed) PROVE IInv'
  OBVIOUS
<1>0. /\ Closes /\ UNCHANGED <<changes, since, savedBy>>
      /\ firmware' \in DOMAIN Firmware /\ firmware' \in {firmware, firmware + 1}
      /\ ram' = Read(Without(failed, flash'), firmware')
  BY DEF Boot, Restart
<1>1. PICK S : Persist(S)
  BY DEF Boot
<1>2. /\ firmware \in Nat /\ firmware' \in Nat /\ savedBy \in 0..firmware
      /\ 1..firmware \subseteq 1..firmware' /\ savedBy \in 0..firmware'
      /\ savedBy = firmware' => firmware' = firmware
  BY <1>0, Images DEF IInv, Types
<1>3. Types'
  <2>1. ram' \in [Settings -> Values]
    BY <1>0, <1>1, PersistKeeps, WithoutHeld, ReadValues
  <2>2. QED
    BY <1>0, <1>1, <1>2, <2>1, PersistKeeps, ClosesKeeps DEF IInv, Types
<1>4. FlashStamps'
  BY <1>1, <1>2, PersistKeeps DEF FlashStamps, Half
<1>5. NetworkInFlash'
  BY <1>0, <1>1, PersistKeeps DEF NetworkInFlash
<1>6. AllInFlash'
  BY <1>0, <1>1, <1>2, PersistKeeps DEF AllInFlash, Half
<1>7. Remembered'
  BY <1>0, ClosesKeeps DEF Remembered
<1>8. QED
  BY <1>0, <1>3, <1>4, <1>5, <1>6, <1>7, ClosesKeeps DEF IInv

\* A formatted flash holds nothing that was saved.
LEMMA FormatKeeps == IInv /\ Format => IInv'
<1> SUFFICES ASSUME IInv, Format PROVE IInv'
  OBVIOUS
<1>0. /\ Closes /\ UNCHANGED changes
      /\ flash' = Empty
      /\ firmware' \in DOMAIN Firmware /\ firmware' \in {firmware, firmware + 1}
      /\ ram' = Read(Without({}, flash'), firmware')
      /\ since' = [k \in Settings |-> {}]
      /\ savedBy' = 0
  BY DEF Format, Restart
<1>1. firmware' \in Nat /\ firmware' # 0
  BY <1>0, Images
<1>2. Types'
  <2>1. ram' \in [Settings -> Values]
    BY <1>0, EmptyHeld, WithoutHeld, ReadValues
  <2>2. QED
    BY <1>0, <1>1, <2>1, EmptyHeld, ClosesKeeps DEF IInv, Types
<1>3. FlashStamps' /\ NetworkInFlash' /\ AllInFlash'
  BY <1>0, <1>1, EmptyHeld, TwoKinds DEF FlashStamps, NetworkInFlash, AllInFlash
<1>4. Remembered'
  BY <1>0, ClosesKeeps DEF Remembered
<1>5. QED
  BY <1>0, <1>2, <1>3, <1>4, ClosesKeeps DEF IInv

\* An erased flash holds nothing that was saved.
LEMMA EraseKeeps == IInv /\ Erase => IInv'
<1> SUFFICES ASSUME IInv, Erase PROVE IInv'
  OBVIOUS
<1> USE DEF Erase
<1>1. firmware \in Nat /\ firmware # 0
  BY Images DEF IInv, Types
<1>2. Types'
  BY <1>1, EmptyHeld DEF IInv, Types
<1>3. FlashStamps' /\ NetworkInFlash' /\ AllInFlash'
  BY <1>1, EmptyHeld, TwoKinds DEF FlashStamps, NetworkInFlash, AllInFlash
<1>4. PendingNow' /\ WholeSoFar'
  BY DEF IInv, PendingNow, WholeSoFar, Half
<1>5. Remembered'
  BY DEF Remembered
<1>6. QED
  BY <1>2, <1>3, <1>4, <1>5 DEF IInv

\* A change is one of the values a boot may find.
LEMMA ChangeKeeps == IInv /\ Change => IInv'
<1> SUFFICES ASSUME IInv, Change PROVE IInv'
  OBVIOUS
<1>1. PICK k \in Settings :
        /\ ram' = [ram EXCEPT ![k] = <<firmware, changes'>>]
        /\ since' = [since EXCEPT ![k] = @ \cup {<<firmware, changes'>>}]
        /\ during' = IF done = -1 THEN during
                     ELSE [during EXCEPT ![k] = @ \cup {<<firmware, changes'>>}]
  BY DEF Change
<1>2. /\ changes' = changes + 1
      /\ UNCHANGED <<firmware, flash, pending, done, whole, savedBy>>
  BY DEF Change
<1>3. <<firmware, changes'>> \in Values /\ changes' \in Nat
  BY <1>2, Images DEF IInv, Types, Values
<1> DEFINE v == <<firmware, changes'>>
<1> HIDE DEF v
<1>4. Types'
  BY <1>1, <1>2, <1>3 DEF IInv, Types, v
<1>5. /\ \A j \in Settings : since[j] \subseteq since'[j] /\ during[j] \subseteq during'[j]
      /\ \A j \in Settings : j # k => ram'[j] = ram[j]
      /\ ram'[k] = v /\ v \in since'[k]
      /\ done # -1 => v \in during'[k]
      /\ \A j \in Settings : during'[j] \subseteq during[j] \/ (j = k /\ during'[j] \subseteq during[j] \cup {v})
  BY <1>1 DEF IInv, Types, v
<1>6. FlashStamps' /\ WholeSoFar'
  BY <1>2 DEF IInv, FlashStamps, WholeSoFar, Half
<1>7. NetworkInFlash' /\ AllInFlash'
  BY <1>2, <1>5, TwoKinds DEF IInv, NetworkInFlash, AllInFlash, Half
<1>8. PendingNow'
  BY <1>2, <1>5 DEF IInv, PendingNow, Half
<1>9. Remembered'
  BY <1>2, <1>5 DEF IInv, Remembered
<1>10. QED
  BY <1>4, <1>6, <1>7, <1>8, <1>9 DEF IInv

\* The inductive invariant.
THEOREM StoreInvariant == StoreSpec => []IInv
<1>1. IInv /\ [StoreNext]_storeVars => IInv'
  <2> SUFFICES ASSUME IInv, [StoreNext]_storeVars PROVE IInv'
    OBVIOUS
  <2>1. CASE StoreNext
    BY <2>1, OpenKeeps, SetKeeps, CommitKeeps, BootKeeps, FormatKeeps, EraseKeeps, ChangeKeeps
       DEF StoreNext
  <2>2. CASE UNCHANGED storeVars
    BY <2>2 DEF storeVars, IInv, Types, FlashStamps, PendingNow, Remembered, WholeSoFar,
               NetworkInFlash, AllInFlash, Half
  <2>3. QED
    BY <2>1, <2>2
<1>2. QED
  BY Initially, <1>1, PTL DEF StoreSpec

-----------------------------------------------------------------------------
(* What a boot finds.                                                      *)

\* A setting that is loaded and in flash is the one in flash.
LEMMA Loaded ==
  ASSUME NEW h, NEW f, NEW k \in Settings, k \in Loads(h, f), h[k] # Absent
  PROVE  Read(h, f)[k] = h[k]
BY DEF Read

\* What can be read of a flash is what it holds.
LEMMA SameRead ==
  ASSUME NEW h, NEW failed, Readable(failed), NEW k \in Settings \ failed
  PROVE  /\ Stamp(Without(failed, h)) = Stamp(h)
         /\ Without(failed, h)[k] = h[k]
BY TwoKinds DEF Readable, Without, Stamp, Stored

\* Every boot of the image that saved finds every setting it can read as saved or as
\* set or saved later.
THEOREM SavedSettingsLoaded == StoreSpec => SavedIsLoaded
<1>1. IInv /\ [StoreNext]_storeVars
        => [\A failed \in SUBSET Keys :
              Readable(failed) /\ savedBy = firmware' /\ Boot(failed) =>
                \A k \in Settings \ failed : ram'[k] \in since[k]]_storeVars
  <2> SUFFICES ASSUME IInv, NEW failed \in SUBSET Keys, Boot(failed), Readable(failed),
                      savedBy = firmware', NEW k \in Settings \ failed
               PROVE  ram'[k] \in since[k]
    OBVIOUS
  <2> DEFINE h == Without(failed, flash')
  <2>1. PICK S : Persist(S)
    BY DEF Boot
  <2>2. /\ ram' = Read(h, firmware')
        /\ firmware' \in DOMAIN Firmware /\ firmware' \in {firmware, firmware + 1}
    BY DEF Boot, Restart
  <2>3. firmware' = firmware
    BY <2>2, Images DEF IInv, Types
  <2>4. /\ flash'["nvsod"] = Half("nvsod", firmware) /\ flash'["nvsod1"] = Half("nvsod1", firmware)
        /\ flash'[k] \in since[k]
    BY <2>1, <2>3, PersistKeeps, TwoKinds
  <2>5. flash'[k] # Absent
    BY <2>4, ValuesPresent DEF IInv, Types
  <2>6. Stamp(flash') = Firmware[firmware]
    BY <2>2, <2>3, <2>4, Halves, TwoKinds DEF Stamp, Stored
  <2>7. Stamp(h) = Stamp(flash') /\ h[k] = flash'[k]
    BY SameRead
  <2> HIDE DEF h
  <2>8. k \in Loads(h, firmware')
    BY <2>3, <2>6, <2>7 DEF Loads
  <2>9. QED
    BY <2>2, <2>4, <2>5, <2>7, <2>8, Loaded
<1>2. QED
  BY StoreInvariant, <1>1, PTL DEF StoreSpec, SavedIsLoaded

\* A boot keeps what it can read of the network's settings, but for the half-written
\* stamp.
THEOREM NetworkSettingsKept == StoreSpec => NetworkKept
<1>1. IInv /\ [StoreNext]_storeVars
        => [\A failed \in SUBSET Keys :
              savedBy # 0 /\ Readable(failed) /\ ~HalfStamped /\ Boot(failed) =>
                \A k \in Network \ failed : ram'[k] \in since[k]]_storeVars
  <2> SUFFICES ASSUME IInv, NEW failed \in SUBSET Keys, Boot(failed), Readable(failed),
                      savedBy # 0, ~HalfStamped, NEW k \in Network \ failed
               PROVE  ram'[k] \in since[k]
    OBVIOUS
  <2> DEFINE h == Without(failed, flash')
  <2>1. PICK S : Persist(S)
    BY DEF Boot
  <2>2. /\ ram' = Read(h, firmware')
        /\ firmware' \in DOMAIN Firmware /\ firmware' \in {firmware, firmware + 1}
    BY DEF Boot, Restart
  <2>3. flash'[k] \in since[k] /\ k \in Settings
    BY <2>1, PersistKeeps, TwoKinds
  <2>4. flash'[k] # Absent
    BY <2>3, ValuesPresent DEF IInv, Types
  <2>5. /\ \E g \in 1..firmware : flash'["nvsod"] = Half("nvsod", g)
        /\ \E r \in 1..firmware : flash'["nvsod1"] = Half("nvsod1", r)
        /\ flash'["nvsod"] # Absent /\ flash'["nvsod1"] # Absent
    BY <2>1, PersistKeeps, TwoKinds
  <2>6. PICK g \in 1..firmware : flash'["nvsod"] = Half("nvsod", g)
    BY <2>5
  <2>7. PICK r \in 1..firmware : flash'["nvsod1"] = Half("nvsod1", r)
    BY <2>5
  <2> DEFINE version == Half("nvsod", g)
             revision == Half("nvsod1", r)
             f == firmware'
  <2>8. /\ g \in DOMAIN Firmware /\ r \in DOMAIN Firmware /\ g \in Nat /\ f \in Nat /\ g <= f
    BY <2>2, Images DEF IInv, Types
  <2>9. Half("nvsod", g) <= Half("nvsod", f)
    BY <2>2, <2>8, StoreAssumption DEF Half
  <2>10. /\ version \in Nat /\ version # 0 /\ revision \in Nat
         /\ Half("nvsod", f) \in Nat /\ Half("nvsod1", f) \in Nat
         /\ Firmware[f] = <<Half("nvsod", f), Half("nvsod1", f)>>
    BY <2>2, <2>8, Halves, TwoKinds
  <2>11. Stamp(flash') = <<version, revision>>
    BY <2>5, <2>6, <2>7 DEF Stamp, Stored
  <2>12. version = Half("nvsod", f) => revision <= Half("nvsod1", f)
    <3>1. ASSUME version = Half("nvsod", f) PROVE ~(revision > Half("nvsod1", f))
      BY <2>5, <2>6, <2>7, <2>10, <3>1 DEF HalfStamped, Stored
    <3>2. QED
      BY <2>10, <3>1
  <2>12a. Stamp(h) = Stamp(flash') /\ h[k] = flash'[k]
    BY <2>3, SameRead
  <2> HIDE DEF version, revision, f, h
  <2>13. Stamp(flash') = Firmware[f] \/ IsOlder(Stamp(flash'), Firmware[f])
    BY <2>9, <2>10, <2>11, <2>12 DEF IsOlder, version, f
  <2>14. Stamp(flash') # <<0, 0>>
    BY <2>10, <2>11
  <2>15. k \in Loads(h, f)
    BY <2>3, <2>13, <2>14, <2>12a DEF Loads
  <2>16. QED
    BY <2>2, <2>3, <2>4, <2>15, <2>12a, Loaded DEF f
<1>2. QED
  BY StoreInvariant, <1>1, PTL DEF StoreSpec, NetworkKept

=============================================================================
