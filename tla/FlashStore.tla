----------------------------- MODULE FlashStore -----------------------------
(***************************************************************************)
(* src/flash_store.rs: the persistent power state and restore mode.        *)
(*                                                                         *)
(* One flash sector is a ring of pages, one settings entry per page.       *)
(* FlashStore::new scans the pages from the last to the first for a valid  *)
(* entry; write_entry scans from the first to the last for a blank one,    *)
(* erases the whole sector when there is none, and programs the page.      *)
(* The erase and the program are two flash operations: power may fail      *)
(* before, between and after them, and, when TornFlash, inside them.       *)
(***************************************************************************)
EXTENDS Naturals, FiniteSetsExt

CONSTANTS
  Bits,                \* bit positions of a byte
  ENTRIES_PER_SECTOR,  \* pages of the settings sector: 16 in the firmware
  TornFlash            \* TRUE: power may fail in the middle of a flash operation

INSTANCE NorFlash

\* The discriminants below use bits 0 and 1, each of them at most one of the two.
ASSUME BitsAssumption == {0, 1} \subseteq Bits
ASSUME EntriesAssumption == ENTRIES_PER_SECTOR \in Nat \ {0}
ASSUME TornFlashAssumption == TornFlash \in BOOLEAN

VARIABLES
  sector,  \* the settings sector, page by page: its two entry bytes
  entry,   \* current_entry, the copy in RAM
  phase,   \* "off", "idle", or the flash operation under way
  slot,    \* entry_index of the write under way
  damaged  \* history: an operation was torn since the last completed erase

vars == <<sector, entry, phase, slot, damaged>>

-----------------------------------------------------------------------------
(* Entries and their bytes                                                 *)

PowerState == {"Off", "On"}
RestoreMode == {"Off", "On", "LastState"}
FlashEntry == [power : PowerState, mode : RestoreMode]
DefaultPowerOn == [power |-> "On", mode |-> "Off"]  \* mutant: the other level
DefaultEntry == [power |-> "Off", mode |-> "Off"]

\* repr(u8) of both enums: 0, 1 and 2 as sets of bits.
AsByte == [Off |-> {}, On |-> {0}, LastState |-> {1}]

\* from_byte returns Some for these bytes only, and then the value below.
IsValueOf(Enum, b) == \E v \in Enum : AsByte[v] = b
FromByte(Enum, b) == CHOOSE v \in Enum : AsByte[v] = b

Slots == 0 .. ENTRIES_PER_SECTOR - 1
Page == [power : Byte, mode : Byte]
BlankPage == [power |-> Erased, mode |-> Erased]

HoldsEntry(page) == /\ page.power # Erased
                    /\ IsValueOf(PowerState, page.power)
                    /\ IsValueOf(RestoreMode, page.mode)

EntryOf(page) == [power |-> FromByte(PowerState, page.power),
                  mode  |-> FromByte(RestoreMode, page.mode)]

\* The backward scan of read_last_entry.
ValidSlots(s) == {i \in Slots : HoldsEntry(s[i])}
ReadFirstEntry(s) == IF ValidSlots(s) = {} THEN DefaultEntry  \* mutant: scans forwards
                     ELSE EntryOf(s[Min(ValidSlots(s))])
ReadLastEntry(s) == IF ValidSlots(s) = {} THEN DefaultEntry
                    ELSE EntryOf(s[Max(ValidSlots(s))])

\* The forward scan of write_entry; ENTRIES_PER_SECTOR when nothing is free.
FreeSlots(s) == {i \in Slots : s[i].power = Erased}
FirstFree(s) == IF FreeSlots(s) = {} THEN ENTRIES_PER_SECTOR
                ELSE Min(FreeSlots(s))

\* What the next boot would load.
Durable == ReadLastEntry(sector)

-----------------------------------------------------------------------------
(* Operations                                                              *)

Init ==
  /\ sector = [i \in Slots |-> BlankPage]
  /\ entry = DefaultEntry
  /\ phase = "off"
  /\ slot = 0
  /\ damaged = FALSE

\* FlashStore::new
New ==
  /\ phase = "off"
  /\ entry' = ReadLastEntry(sector)
  /\ phase' = "idle"
  /\ UNCHANGED <<sector, slot, damaged>>

\* Mutants of BeginWrite: the bound tested one too far, the erase forgotten, and
\* the last page given up.
BeginWriteBeyond ==
  IF FirstFree(sector) > ENTRIES_PER_SECTOR
    THEN phase' = "erase" /\ slot' = 0
    ELSE phase' = "program" /\ slot' = FirstFree(sector)
BeginWriteUnerased ==
  phase' = "program" /\ slot' = FirstFree(sector) % ENTRIES_PER_SECTOR
BeginWriteEarly ==
  IF FirstFree(sector) >= ENTRIES_PER_SECTOR - 1
    THEN phase' = "erase" /\ slot' = 0
    ELSE phase' = "program" /\ slot' = FirstFree(sector)

\* write_entry up to its first flash operation.
BeginWrite ==
  LET entry_index == FirstFree(sector)
  IN IF entry_index >= ENTRIES_PER_SECTOR
       THEN phase' = "erase" /\ slot' = 0
       ELSE phase' = "program" /\ slot' = entry_index

\* Mutant of SetEntry: the change stays in RAM.
SetEntryInRam(e) == phase = "idle" /\ entry' = e /\ UNCHANGED <<sector, phase, slot, damaged>>

\* The common body of the two setters: only an actual change is persisted.
SetEntry(e) ==
  /\ phase = "idle"
  /\ entry' = e
  /\ IF e # entry THEN BeginWrite ELSE UNCHANGED <<phase, slot>>
  /\ UNCHANGED <<sector, damaged>>

SetPowerState(p) == SetEntry([entry EXCEPT !.power = p])
SetRestoreMode(m) == SetEntry([entry EXCEPT !.mode = m])

\* The erase of a full sector completes.
EraseSector ==
  /\ phase = "erase"
  /\ sector' = [i \in Slots |-> BlankPage]
  /\ phase' = "program"
  /\ damaged' = FALSE
  /\ UNCHANGED <<entry, slot>>

\* Mutant of ProgramPage: only the first of the two entry bytes is written.
ProgramPower ==
  /\ phase = "program"
  /\ sector' = [sector EXCEPT ![slot].power = Programmed(@, AsByte[entry.power])]
  /\ phase' = "idle"
  /\ UNCHANGED <<entry, slot, damaged>>

\* The page program completes and write_entry returns.
ProgramPage ==
  /\ phase = "program"
  /\ sector' = [sector EXCEPT ![slot] =
                  [power |-> Programmed(@.power, AsByte[entry.power]),
                   mode  |-> Programmed(@.mode, AsByte[entry.mode])]]
  /\ phase' = "idle"
  /\ UNCHANGED <<entry, slot, damaged>>

\* What an interrupted operation may leave of the sector.
TornSectors ==
  CASE phase = "erase" ->
         {s \in [Slots -> Page] : \A i \in Slots :
            /\ s[i].power \in TornErase(sector[i].power)
            /\ s[i].mode \in TornErase(sector[i].mode)}
    [] phase = "program" ->
         {[sector EXCEPT ![slot] = [power |-> p, mode |-> m]] :
            p \in TornProgram(sector[slot].power, AsByte[entry.power]),
            m \in TornProgram(sector[slot].mode, AsByte[entry.mode])}
    [] OTHER -> {sector}

\* A power cut, or any reset of the chip: RAM is lost, flash stays.
PowerLoss ==
  /\ phase # "off"
  /\ \/ UNCHANGED sector
     \/ TornFlash /\ sector' \in TornSectors
  /\ damaged' = (damaged \/ sector' # sector)
  /\ phase' = "off"
  /\ UNCHANGED <<entry, slot>>

Next ==
  \/ New
  \/ \E p \in PowerState : SetPowerState(p)
  \/ \E m \in RestoreMode : SetRestoreMode(m)
  \/ EraseSector
  \/ ProgramPage
  \/ PowerLoss

Spec == Init /\ [][Next]_vars

-----------------------------------------------------------------------------
(* Properties                                                              *)

\* Types of the sector, the RAM entry and the write under way.
TypeOK ==
  /\ sector \in [Slots -> Page]
  /\ entry \in FlashEntry
  /\ phase \in {"off", "idle", "erase", "program"}
  /\ slot \in Slots
  /\ damaged \in BOOLEAN

\* Between commands, the settings the firmware works with are the ones the
\* next boot would load: the forward scan of write_entry and the backward scan
\* of read_last_entry agree on which page is the newest, through every wrap of
\* the ring and every reset (flash_store.rs:102-164).
EntryIsDurable == phase = "idle" => Durable = entry

\* The same when power cuts may tear a program or an erase: what a torn operation
\* spoils is repaired by the next erase of the sector that completes.
DurableUnlessDamaged == ~damaged => EntryIsDurable

\* write_entry only ever programs a page that reads blank in both entry bytes;
\* programming cannot set bits, so over anything else the new values would be
\* merged with old ones (flash_store.rs:138-162).
ProgramsBlankPage == phase = "program" => sector[slot] = BlankPage

\* The sector is erased only once each of its pages carries an entry: the wear
\* the circular buffer is there to save (flash_store.rs:3-4, 147-154).
ErasesOnlyFullSector == phase = "erase" => ValidSlots(sector) = Slots

\* At every instant a power cut is followed by a boot that loads either the
\* settings before the change under way or the ones after it ("State consistent
\* after stable power restored", TESTING.md:321).  The code erases the only
\* copy before it writes the new one, so this does not hold at a wrap.
CommitIsAtomic == [][Durable' \in {Durable, entry}]_vars

\* The store implements the abstract durable settings value: what a boot would
\* load changes only by the commit of the change under way or by a wipe.
Abstract == INSTANCE DurableSettings
              WITH Settings <- FlashEntry, Default <- DefaultEntry,
                   durable <- Durable, ram <- entry, up <- phase # "off"
ImplementsDurableSettings == Abstract!Spec
=============================================================================
