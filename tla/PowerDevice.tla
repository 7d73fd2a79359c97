---------------------------- MODULE PowerDevice ----------------------------
(***************************************************************************)
(* The power output and the settings store together, as main.rs drives     *)
(* them: the boot applies the restore mode to the output pin, the commands *)
(* move the pin and the stored settings, and any reset of the chip drops   *)
(* the pin.  src/main.rs:159-195 and 240-262, src/power_control.rs.        *)
(***************************************************************************)
EXTENDS FlashStore

VARIABLES
  pin,        \* the level of GPIO 4, which switches the output
  commanded,  \* history: a PWR_ command has been carried out since the boot
  lastPower   \* history: the last PWR_ON begun or PWR_OFF completed

deviceVars == <<sector, entry, phase, slot, damaged, pin, commanded, lastPower>>

Level == {"Off", "On"}  \* low and high, named as PowerState names them

DeviceTypeOK == /\ TypeOK
                /\ pin \in Level
                /\ commanded \in BOOLEAN
                /\ lastPower \in {"None", "On", "TurningOff", "Off"}

DeviceInit == Init /\ pin = "Off" /\ commanded = FALSE /\ lastPower = "None"

RestoredMode(e) == e.mode  \* mutant of RestoredLevel: LastState not looked up

\* The level a restore mode asks for at boot.
RestoredLevel(e) == IF e.mode = "LastState" THEN e.power ELSE e.mode

\* From reset to the main loop: FlashStore::new, Output::new at Level::Low, and
\* the match on the restore mode.
Boot ==
  /\ New
  /\ pin' = RestoredLevel(entry')
  /\ commanded' = FALSE
  /\ UNCHANGED lastPower

\* Mutant of PowerOff: the stored state is forgotten.
PinOff == /\ phase = "idle" /\ pin' = "Off" /\ UNCHANGED vars
          /\ commanded' = TRUE /\ lastPower' = "Off"

\* Command::PowerOn and Command::PowerOff: the pin first, then the store.
PowerOn ==
  /\ pin' = "On"
  /\ SetPowerState("On")
  /\ commanded' = TRUE /\ lastPower' = "On"

PowerOff ==
  /\ pin' = "Off"
  /\ SetPowerState("Off")
  /\ commanded' = TRUE
  /\ lastPower' = IF phase' = "idle" THEN "Off" ELSE "TurningOff"

\* The three RESTORE_MODE commands.
SetMode(m) == SetRestoreMode(m) /\ UNCHANGED <<pin, commanded, lastPower>>

\* The flash operations of the write under way; the main loop waits for them.
FlashStep ==
  /\ EraseSector \/ ProgramPage
  /\ lastPower' = IF phase' = "idle" /\ lastPower = "TurningOff" THEN "Off" ELSE lastPower
  /\ UNCHANGED <<pin, commanded>>

Reset ==
  /\ PowerLoss
  /\ pin' = "Off" /\ commanded' = FALSE
  /\ lastPower' = IF lastPower = "TurningOff" THEN "None" ELSE lastPower

DeviceNext ==
  \/ Boot
  \/ PowerOn
  \/ PowerOff
  \/ \E m \in RestoreMode : SetMode(m)
  \/ FlashStep
  \/ Reset

DeviceSpec == DeviceInit /\ [][DeviceNext]_deviceVars

-----------------------------------------------------------------------------

\* Once a power command has been carried out, a power cut at any quiet moment is
\* followed by a boot that, in mode LastState, restores the level the output has
\* now: pin, RAM copy and flash agree although the setters skip unchanged values
\* (main.rs:241-250, flash_store.rs:178-183).
CommandedLevelSurvives ==
  phase = "idle" /\ commanded => Durable.power = pin

\* "Boot (restore=LastState, was On) | HIGH | Pin matches last state"
\* (TESTING.md:117): in mode LastState the next boot restores the present level.
\* A restore mode On or Off moves the pin at boot and not the stored state, so
\* switching to LastState afterwards restores a level the output did not have.
LastStateIsRestored ==
  phase = "idle" /\ entry.mode = "LastState" => RestoredLevel(Durable) = pin

\* Once PWR_OFF is completed, and until PWR_ON is begun, no boot in mode LastState
\* switches the output on: whatever writes, wraps and power cuts there are between
\* them, the store holds Off or has been wiped to its default, which is Off.
CompletedOffStaysOff == lastPower = "Off" => Durable.power = "Off"
=============================================================================
