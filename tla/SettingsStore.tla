---------------------------- MODULE SettingsStore ----------------------------
(***************************************************************************)
(* The settings in flash: write_nvc saves them key by key under a stamp of *)
(* the firmware's version, read_nvc loads them after a boot.  Firmware     *)
(* that finds its own stamp loads all of them, firmware that finds an      *)
(* older one those of the network, any other none: it goes on with the     *)
(* values it was compiled with.                                            *)
(*                                                                         *)
(* The power may fail between any two calls.  What was set and not yet     *)
(* committed may or may not have reached the flash, each key on its own:   *)
(* "implementations may write to storage at other times, but this is not   *)
(* guaranteed" (nvs_fuc.c:274).  Any call may also fail.  An nvs_open that *)
(* fails in write_nvc or erase_handlenvs leaves everything as it was; in    *)
(* read_nvc it is as if every nvs_get had failed.                          *)
(***************************************************************************)
EXTENDS Integers, Sequences, SequencesExt

CONSTANTS
  Early,       \* the settings written before the stamp, in order
  Late,        \* the settings written after it, in order
  Network,     \* those an upgrade keeps: connect, upgrde, xssid, xpwd
  Firmware,    \* the images installed one after another: <<version_id, Rversion_id>>
  Absent,      \* a key the flash does not hold
  MaxChanges,  \* changes of settings (bound of the model)
  MaxFaults    \* failed calls of the flash (bound of the model)

Settings == Range(Early) \cup Range(Late)

ASSUME StoreAssumption ==
  /\ Early \in Seq(STRING) /\ Late \in Seq(STRING)
  /\ Network \subseteq Settings
  /\ {"nvsod", "nvsod1"} \cap Settings = {}
  /\ Firmware \in Seq((Nat \ {0}) \X Nat)
  /\ Firmware # <<>>
  /\ \A f, g \in DOMAIN Firmware : f <= g => Firmware[f][1] <= Firmware[g][1]
  /\ Absent \notin Nat \cup (Nat \X Nat)
  /\ MaxChanges \in Nat
  /\ MaxFaults \in Nat

VARIABLES
  firmware,  \* the image that runs
  ram,       \* the settings in use; <<f, 0>> is what image f was compiled with
  flash,
  pending,   \* set and not committed
  done,      \* keys write_nvc has passed; -1 when it does not run
  whole,     \* all of them were set
  since,     \* values a setting was given, or a save began with, since the last
             \* whole save began
  during,    \* values a setting had since this save began
  savedBy,   \* the image that last saved all settings; 0 when none did
  changes, faults

storeVars == <<firmware, ram, flash, pending, done, whole, since, during, savedBy, changes, faults>>

\* The order in which write_nvc sets the keys.
Order == Early \o <<"nvsod", "nvsod1">> \o Late
Keys == Range(Order)

Empty == [k \in Keys |-> Absent]

-----------------------------------------------------------------------------
(* Plausible mistakes in the operators below, for the mutation runs.        *)

\* A setting that is saved is not among those loaded.
LoadsForgets(held, f) ==
  IF <<held["nvsod"], held["nvsod1"]>> = Firmware[f] THEN Settings \ {Last(Late)} ELSE Network

\* Only the version is compared.
VersionIsOlder(old, new) == old[1] < new[1]

-----------------------------------------------------------------------------
(* read_nvc.                                                               *)

IsOlder(old, new) == old[1] < new[1] \/ (old[1] = new[1] /\ old[2] < new[2])

\* A number that is not in flash leaves its variable at zero.
Stored(held, k) == IF held[k] = Absent THEN 0 ELSE held[k]
Stamp(held) == <<Stored(held, "nvsod"), Stored(held, "nvsod1")>>

\* The settings image f loads.
Loads(held, f) ==
  IF Stamp(held) = Firmware[f] THEN Settings
  ELSE IF IsOlder(Stamp(held), Firmware[f]) /\ Stamp(held) # <<0, 0>> THEN Network
  ELSE {}

Read(held, f) ==
  LET loads == Loads(held, f)
  IN [k \in Settings |-> IF k \in loads /\ held[k] # Absent THEN held[k] ELSE <<f, 0>>]

\* What a flash seems to hold when the nvs_get of some keys fails: its result is not
\* looked at, and the variable stays as it is.
Without(failed, held) == [k \in Keys |-> IF k \in failed THEN Absent ELSE held[k]]

-----------------------------------------------------------------------------
(* write_nvc.                                                              *)

Fault == faults < MaxFaults /\ faults' = faults + 1

\* Some of what is pending has reached the flash.
Persist(S) == flash' = [k \in Keys |-> IF k \in S /\ pending[k] # Absent THEN pending[k] ELSE flash[k]]

\* write_nvc ends, or the power does.
Closes ==
  /\ done' = -1
  /\ pending' = Empty
  /\ whole' = TRUE
  /\ during' = [k \in Settings |-> {}]

Open ==
  /\ done = -1
  /\ done' = 0
  /\ during' = [k \in Settings |-> {ram[k]}]
  /\ since' = [k \in Settings |-> since[k] \cup {ram[k]}]
  /\ UNCHANGED <<firmware, ram, flash, pending, whole, savedBy, changes, faults>>

\* The value the key of a save gets.
Value(k) == CASE k = "nvsod"  -> Firmware[firmware][1]
              [] k = "nvsod1" -> Firmware[firmware][2]
              [] OTHER        -> ram[k]

\* One nvs_set; its error is overwritten by the next one.
Set ==
  /\ done \in 0..(Len(Order) - 1)
  /\ done' = done + 1
  /\ \/ /\ pending' = [pending EXCEPT ![Order[done + 1]] = Value(Order[done + 1])]
        /\ UNCHANGED <<whole, faults>>
     \/ /\ Fault
        /\ whole' = FALSE
        /\ UNCHANGED pending
  /\ UNCHANGED <<firmware, ram, flash, since, during, savedBy, changes>>

\* The commit's error is not looked at either.
Commit ==
  /\ done = Len(Order)
  /\ Closes
  /\ \/ /\ Persist(Keys)
        /\ since' = IF whole THEN during ELSE since
        /\ savedBy' = IF whole THEN firmware ELSE savedBy
        /\ UNCHANGED faults
     \/ /\ Fault
        /\ \E S \in SUBSET Keys : Persist(S)
        /\ UNCHANGED <<since, savedBy>>
  /\ UNCHANGED <<firmware, ram, changes>>

-----------------------------------------------------------------------------

\* After a power failure, or into a newer image.  The keys in failed cannot be read;
\* all of them when nvs_open fails.
Restart(failed) ==
  /\ firmware' \in {firmware, firmware + 1} \cap DOMAIN Firmware
  /\ ram' = Read(Without(failed, flash'), firmware')
  /\ Closes
  /\ UNCHANGED changes

Boot(failed) ==
  /\ failed # {} => Fault
  /\ failed = {} => UNCHANGED faults
  /\ UNCHANGED <<since, savedBy>>
  /\ \E S \in SUBSET {k \in Keys : pending[k] # Absent} : Persist(S)
  /\ Restart(failed)

\* nvs_init finds a flash it cannot use, and formats it.
Format ==
  /\ Fault
  /\ flash' = Empty
  /\ Restart({})
  /\ since' = [k \in Settings |-> {}]
  /\ savedBy' = 0

\* erase_handlenvs
Erase ==
  /\ done = -1
  /\ flash' = Empty
  /\ since' = [k \in Settings |-> {}]
  /\ savedBy' = 0
  /\ UNCHANGED <<firmware, ram, pending, done, whole, during, changes, faults>>

\* Somebody sets a setting, perhaps while a save is under way.
Change ==
  /\ changes < MaxChanges
  /\ changes' = changes + 1
  /\ \E k \in Settings :
       LET v == <<firmware, changes'>> IN
       /\ ram' = [ram EXCEPT ![k] = v]
       /\ since' = [since EXCEPT ![k] = @ \cup {v}]
       /\ during' = IF done = -1 THEN during ELSE [during EXCEPT ![k] = @ \cup {v}]
  /\ UNCHANGED <<firmware, flash, pending, done, whole, savedBy, faults>>

StoreInit ==
  /\ firmware = 1
  /\ ram = [k \in Settings |-> <<1, 0>>]
  /\ flash = Empty
  /\ pending = Empty
  /\ done = -1
  /\ whole = TRUE
  /\ since = [k \in Settings |-> {}]
  /\ during = [k \in Settings |-> {}]
  /\ savedBy = 0
  /\ changes = 0
  /\ faults = 0

StoreNext ==
  \/ Open \/ Set \/ Commit \/ Format \/ Erase \/ Change
  \/ \E failed \in SUBSET Keys : Boot(failed)

StoreSpec == StoreInit /\ [][StoreNext]_storeVars

-----------------------------------------------------------------------------
(* Properties.                                                             *)

\* A boot that reads the stamp.
Readable(failed) == {"nvsod", "nvsod1"} \cap failed = {}

\* Once an image has saved its settings, every boot of it that can read the stamp finds
\* each setting it can read as it was saved, or as it was set or another save began
\* with later, whatever save was cut or failed since: none is older, none is another
\* image's, and the default a boot that read nothing went on with is there only when a
\* save of it has begun.
SavedIsLoaded ==
  [][\A failed \in SUBSET Keys :
       Readable(failed) /\ savedBy = firmware' /\ Boot(failed) =>
         \A k \in Settings \ failed : ram'[k] \in since[k]]_storeVars

\* The stamp of a firmware whose revision is lower than its predecessor's was half
\* written.
HalfStamped ==
  /\ Stored(flash', "nvsod") = Firmware[firmware'][1]
  /\ Stored(flash', "nvsod1") > Firmware[firmware'][2]

\* Once the settings were saved, a boot, also the first one of a newer image and after
\* a save that was cut at any point or failed in part, loses what it could read of the
\* network in two cases only: it cannot read the stamp, or the stamp is a half-written
\* one that reads as a newer revision.
NetworkKept ==
  [][\A failed \in SUBSET Keys :
       savedBy # 0 /\ Readable(failed) /\ ~HalfStamped /\ Boot(failed) =>
         \A k \in Network \ failed : ram'[k] \in since[k]]_storeVars

=============================================================================
