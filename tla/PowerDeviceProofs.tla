------------------------- MODULE PowerDeviceProofs -------------------------
(***************************************************************************)
(* Proofs about PowerDevice.  Each of its steps is a step of FlashStore or *)
(* leaves the store alone, so what is proved of the store holds under it;  *)
(* two small invariants then tie the pin and the commands to the store.    *)
(***************************************************************************)
EXTENDS PowerDevice, FlashStoreProofs

-----------------------------------------------------------------------------
(* The device uses the store as the store allows                           *)

LEMMA DeviceStep == [DeviceNext]_deviceVars => [Next]_vars
<1> SUFFICES ASSUME [DeviceNext]_deviceVars PROVE [Next]_vars
  OBVIOUS
<1>1. CASE Boot
  BY <1>1 DEF Boot, Next
<1>2. CASE PowerOn \/ PowerOff
  BY <1>2 DEF PowerOn, PowerOff, Next, PowerState
<1>3. CASE \E m \in RestoreMode : SetMode(m)
  BY <1>3 DEF SetMode, Next
<1>4. CASE FlashStep
  BY <1>4 DEF FlashStep, Next
<1>5. CASE Reset
  BY <1>5 DEF Reset, Next
<1>6. CASE UNCHANGED deviceVars
  BY <1>6 DEF deviceVars, vars
<1> QED BY <1>1, <1>2, <1>3, <1>4, <1>5, <1>6 DEF DeviceNext

\* The device implements the settings store: boots, power commands and resets
\* reach the flash in no other way than through the store's operations.
THEOREM DeviceUsesStore == DeviceSpec => Spec
<1>1. DeviceInit => Init
  BY DEF DeviceInit
<1> QED BY <1>1, DeviceStep, PTL DEF DeviceSpec, Spec

LEMMA PinTypes ==
  ASSUME entry' \in FlashEntry,
         pin \in Level /\ commanded \in BOOLEAN /\ lastPower \in {"None", "On", "TurningOff", "Off"},
         [DeviceNext]_deviceVars
  PROVE  /\ pin' \in Level
         /\ commanded' \in BOOLEAN
         /\ lastPower' \in {"None", "On", "TurningOff", "Off"}
<1>1. CASE Boot
  <2>1. RestoredLevel(entry') \in Level
    BY DEF RestoredLevel, FlashEntry, PowerState, RestoreMode, Level
  <2> QED BY <1>1, <2>1 DEF Boot
<1>2. CASE PowerOn \/ PowerOff \/ Reset
  BY <1>2 DEF PowerOn, PowerOff, Reset, Level
<1>3. CASE FlashStep \/ \E m \in RestoreMode : SetMode(m)
  BY <1>3 DEF FlashStep, SetMode
<1>4. CASE UNCHANGED deviceVars
  BY <1>4 DEF deviceVars
<1> QED BY <1>1, <1>2, <1>3, <1>4 DEF DeviceNext

\* Store, pin and history stay within their types, torn operations included: a
\* boot drives the pin to a level whatever it finds in flash.
THEOREM DeviceTypeCorrect == DeviceSpec => []DeviceTypeOK
<1> DEFINE PinOK == /\ pin \in Level
                    /\ commanded \in BOOLEAN
                    /\ lastPower \in {"None", "On", "TurningOff", "Off"}
<1>1. DeviceInit => PinOK
  BY DEF DeviceInit, Level
<1>2. TypeOK' /\ PinOK /\ [DeviceNext]_deviceVars => PinOK'
  BY PinTypes DEF TypeOK
<1>3. TypeOK /\ PinOK => DeviceTypeOK
  BY DEF DeviceTypeOK
<1> QED BY <1>1, <1>2, <1>3, DeviceUsesStore, TypeCorrect, PTL DEF DeviceSpec

-----------------------------------------------------------------------------
(* Commands survive                                                        *)

\* A command leaves pin and RAM entry at the same level.
PinInv == commanded /\ phase # "off" => entry.power = pin

LEMMA PinNext ==
  ASSUME TypeOK, PinInv, [DeviceNext]_deviceVars
  PROVE  PinInv'
<1> USE DEF PinInv
<1>1. entry \in FlashEntry
  BY DEF TypeOK
<1>2. CASE Boot \/ Reset
  BY <1>2 DEF Boot, Reset
<1>3. CASE PowerOn \/ PowerOff
  BY <1>1, <1>3 DEF PowerOn, PowerOff, SetPowerState, SetEntry, FlashEntry
<1>4. ASSUME NEW m \in RestoreMode, SetMode(m)
      PROVE  PinInv'
  BY <1>1, <1>4 DEF SetMode, SetRestoreMode, SetEntry, FlashEntry
<1>5. CASE FlashStep
  BY <1>5 DEF FlashStep, EraseSector, ProgramPage
<1>6. CASE UNCHANGED deviceVars
  BY <1>6 DEF deviceVars
<1> QED BY <1>2, <1>3, <1>4, <1>5, <1>6 DEF DeviceNext

\* A level that was commanded is, at every quiet moment, the one the next boot
\* restores in mode LastState.
THEOREM CommandsSurvive ==
  ASSUME TornFlash = FALSE
  PROVE  DeviceSpec => []CommandedLevelSurvives
<1>1. DeviceInit => PinInv
  BY DEF DeviceInit, PinInv
<1>2. TypeOK /\ PinInv /\ [DeviceNext]_deviceVars => PinInv'
  BY PinNext
<1>3. EntryIsDurable /\ PinInv => CommandedLevelSurvives
  BY DEF EntryIsDurable, PinInv, CommandedLevelSurvives
<1> QED BY <1>1, <1>2, <1>3, DeviceUsesStore, TypeCorrect, Durability, PTL DEF DeviceSpec

\* Once PWR_OFF is done, flash and RAM hold Off; until then RAM does.
OffInv ==
  /\ lastPower = "Off" => Durable.power = "Off" /\ (phase # "off" => entry.power = "Off")
  /\ lastPower = "TurningOff" => phase \in {"erase", "program"} /\ entry.power = "Off"

\* An erased sector reads as the default entry.
LEMMA ErasedIsDefault ==
  ASSUME EraseSector
  PROVE  Durable' = DefaultEntry
<1>1. Filled(sector', 0) /\ 0 \in 0 .. ENTRIES_PER_SECTOR
  BY EntriesAssumption DEF EraseSector, Filled, Slots
<1> QED BY <1>1, ReadOfFilled DEF Durable

LEMMA OffNext ==
  ASSUME TornFlash = FALSE, TypeOK, EntryIsDurable, EntryIsDurable', OffInv,
         [DeviceNext]_deviceVars
  PROVE  OffInv'
<1> USE DEF OffInv, EntryIsDurable
<1>1. entry \in FlashEntry
  BY DEF TypeOK
<1>2. CASE Boot
  BY <1>2 DEF Boot, New, Durable
<1>3. CASE PowerOn
  BY <1>3 DEF PowerOn
<1>4. CASE PowerOff
  <2>1. entry'.power = "Off" /\ phase = "idle" /\ phase' \in {"idle", "erase", "program"}
    BY <1>1, <1>4 DEF PowerOff, SetPowerState, SetEntry, BeginWrite, FlashEntry
  <2>2. CASE phase' = "idle"
    BY <1>4, <2>1, <2>2 DEF PowerOff
  <2>3. CASE phase' # "idle"
    BY <1>4, <2>1, <2>3 DEF PowerOff
  <2> QED BY <2>2, <2>3
<1>5. ASSUME NEW m \in RestoreMode, SetMode(m)
      PROVE  OffInv'
  BY <1>1, <1>5 DEF SetMode, SetRestoreMode, SetEntry, FlashEntry, Durable
<1>6. CASE FlashStep
  <2>1. CASE EraseSector
    <3>1. Durable'.power = "Off"
      BY <2>1, ErasedIsDefault DEF DefaultEntry
    <3>2. entry' = entry /\ phase = "erase" /\ phase' = "program"
      BY <2>1 DEF EraseSector
    <3>3. lastPower' = lastPower
      BY <1>6, <3>2 DEF FlashStep
    <3> QED BY <3>1, <3>2, <3>3
  <2>2. CASE ProgramPage
    BY <1>6, <2>2 DEF FlashStep, ProgramPage
  <2> QED BY <1>6, <2>1, <2>2 DEF FlashStep
<1>7. CASE Reset
  <2>1. Durable' = Durable /\ phase' = "off"
    BY <1>7 DEF Reset, PowerLoss, Durable
  <2> QED BY <1>7, <2>1 DEF Reset
<1>8. CASE UNCHANGED deviceVars
  BY <1>8 DEF deviceVars, Durable
<1> QED BY <1>2, <1>3, <1>4, <1>5, <1>6, <1>7, <1>8 DEF DeviceNext

\* After a completed PWR_OFF no power cut, wrap or change of mode can bring the
\* output back on at a boot in mode LastState.
THEOREM OffIsFinal ==
  ASSUME TornFlash = FALSE
  PROVE  DeviceSpec => []CompletedOffStaysOff
<1>1. DeviceInit => OffInv
  BY DEF DeviceInit, OffInv
<1>2. TypeOK /\ EntryIsDurable /\ EntryIsDurable' /\ OffInv /\ [DeviceNext]_deviceVars => OffInv'
  BY OffNext
<1>3. OffInv => CompletedOffStaysOff
  BY DEF OffInv, CompletedOffStaysOff
<1> QED BY <1>1, <1>2, <1>3, DeviceUsesStore, TypeCorrect, Durability, PTL DEF DeviceSpec
=============================================================================
