-------------------------- MODULE FlashStoreProofs --------------------------
(***************************************************************************)
(* Proofs about FlashStore, for a sector of any number of pages and bytes  *)
(* of any set of bits.  The inductive invariant says that an undamaged     *)
(* sector is a run of valid entries followed by blank pages; the forward   *)
(* scan then returns the end of the run and the backward scan its last     *)
(* entry.                                                                  *)
(***************************************************************************)
EXTENDS FlashStore, WellFoundedInduction, TLAPS

\* The first k pages hold entries and the others are blank.
Filled(s, k) == \A i \in Slots : IF i < k THEN HoldsEntry(s[i]) ELSE s[i] = BlankPage

\* The page write_entry prepares in write_buf.
PageFor(e) == [power |-> AsByte[e.power], mode |-> AsByte[e.mode]]

ShapeInv ==
  /\ \E k \in 0 .. ENTRIES_PER_SECTOR : Filled(sector, k)
  /\ phase = "idle" => Durable = entry
  /\ phase = "erase" => Filled(sector, ENTRIES_PER_SECTOR)
  /\ phase = "program" => Filled(sector, slot)

IInv ==
  /\ TypeOK
  /\ phase = "erase" => slot = 0
  /\ ~damaged => ShapeInv

-----------------------------------------------------------------------------
(* Pages and entries                                                       *)

\* Writing an entry over a blank page makes a page that holds that entry.
LEMMA PageForHolds ==
  ASSUME NEW e \in FlashEntry
  PROVE  /\ PageFor(e) \in Page
         /\ HoldsEntry(PageFor(e))
         /\ EntryOf(PageFor(e)) = e
         /\ [power |-> Programmed(BlankPage.power, AsByte[e.power]),
             mode  |-> Programmed(BlankPage.mode, AsByte[e.mode])] = PageFor(e)
<1>1. e.power \in PowerState /\ e.mode \in RestoreMode
  BY DEF FlashEntry
<1>2. e = [power |-> e.power, mode |-> e.mode]
  BY DEF FlashEntry
<1>3. /\ AsByte[e.power] \subseteq {0, 1} /\ AsByte[e.power] # {0, 1}
      /\ AsByte[e.mode] \subseteq {0, 1} /\ AsByte[e.mode] # {0, 1}
  BY <1>1 DEF PowerState, RestoreMode, AsByte
<1>4. \A v, w \in RestoreMode : AsByte[v] = AsByte[w] => v = w
  BY DEF RestoreMode, AsByte
<1>5. FromByte(PowerState, AsByte[e.power]) = e.power
  BY <1>1, <1>4 DEF FromByte, PowerState, RestoreMode
<1>6. FromByte(RestoreMode, AsByte[e.mode]) = e.mode
  BY <1>1, <1>4 DEF FromByte
<1>7. AsByte[e.power] # Erased /\ AsByte[e.power] \in Byte /\ AsByte[e.mode] \in Byte
  BY <1>3, BitsAssumption DEF Erased, Byte
<1>8. PageFor(e) \in Page /\ HoldsEntry(PageFor(e))
  BY <1>1, <1>7 DEF PageFor, Page, HoldsEntry, IsValueOf
<1>9. EntryOf(PageFor(e)) = e
  BY <1>2, <1>5, <1>6 DEF EntryOf, PageFor
<1>10. /\ Programmed(BlankPage.power, AsByte[e.power]) = AsByte[e.power]
       /\ Programmed(BlankPage.mode, AsByte[e.mode]) = AsByte[e.mode]
  BY <1>7 DEF Programmed, BlankPage, Erased, Byte
<1> QED BY <1>8, <1>9, <1>10 DEF PageFor

\* A blank page holds no entry.
LEMMA BlankHoldsNothing == ~HoldsEntry(BlankPage)
BY DEF HoldsEntry, BlankPage

LEMMA BlankIsPage == BlankPage \in Page
BY DEF BlankPage, Page, Erased, Byte

-----------------------------------------------------------------------------
(* The two scans on a run of entries                                       *)

\* The backward scan finds the last entry of the run, or nothing.
LEMMA ReadOfFilled ==
  ASSUME NEW s, NEW k \in 0 .. ENTRIES_PER_SECTOR, Filled(s, k)
  PROVE  ReadLastEntry(s) = IF k = 0 THEN DefaultEntry ELSE EntryOf(s[k - 1])
<1>1. ValidSlots(s) = 0 .. k - 1
  BY EntriesAssumption, BlankHoldsNothing DEF ValidSlots, Filled, Slots
<1>2. CASE k = 0
  BY <1>1, <1>2 DEF ReadLastEntry
<1>3. CASE k # 0
  <2>1. k - 1 \in 0 .. k - 1 /\ \A j \in 0 .. k - 1 : k - 1 >= j
    BY <1>3, EntriesAssumption
  <2>2. Max(0 .. k - 1) \in 0 .. k - 1 /\ \A j \in 0 .. k - 1 : Max(0 .. k - 1) >= j
    BY <2>1 DEF Max
  <2>3. Max(0 .. k - 1) = k - 1
    BY <2>1, <2>2, EntriesAssumption
  <2> QED BY <1>1, <1>3, <2>1, <2>3 DEF ReadLastEntry
<1> QED BY <1>2, <1>3

\* The forward scan finds the end of the run.
LEMMA FreeOfFilled ==
  ASSUME NEW s, NEW k \in 0 .. ENTRIES_PER_SECTOR, Filled(s, k)
  PROVE  FirstFree(s) = k
<1>1. FreeSlots(s) = k .. ENTRIES_PER_SECTOR - 1
  BY EntriesAssumption DEF FreeSlots, Filled, Slots, HoldsEntry, BlankPage
<1>2. CASE k = ENTRIES_PER_SECTOR
  BY <1>1, <1>2, EntriesAssumption DEF FirstFree
<1>3. CASE k # ENTRIES_PER_SECTOR
  <2> DEFINE S == k .. ENTRIES_PER_SECTOR - 1
  <2>1. k \in S /\ \A j \in S : k =< j
    BY <1>3, EntriesAssumption
  <2>2. Min(S) \in S /\ \A j \in S : Min(S) =< j
    BY <2>1 DEF Min
  <2>3. Min(S) = k
    BY <2>1, <2>2, EntriesAssumption
  <2> QED BY <1>1, <1>3, <2>1, <2>3 DEF FirstFree
<1> QED BY <1>2, <1>3

-----------------------------------------------------------------------------
(* The scans of an arbitrary sector, damaged or not                        *)

\* Every nonempty set of naturals has a least element.
LEMMA LeastNatural ==
  ASSUME NEW S \in SUBSET Nat, S # {}
  PROVE  \E x \in S : \A y \in S : x =< y
<1> DEFINE R == OpToRel(<, Nat)
<1>1. \E x \in S : \A y \in S : ~(<<y, x>> \in R)
  BY NatLessThanWellFounded, WFMin
<1>2. \A x, y \in Nat : ~(<<y, x>> \in R) => x =< y
  BY DEF OpToRel
<1> QED BY <1>1, <1>2

LEMMA MinOfSlots ==
  ASSUME NEW S \in SUBSET Slots, S # {}
  PROVE  Min(S) \in S
<1>1. S \in SUBSET Nat
  BY EntriesAssumption DEF Slots
<1>2. \E x \in S : \A y \in S : x =< y
  BY <1>1, LeastNatural
<1> QED BY <1>2 DEF Min

LEMMA MaxOfSlots ==
  ASSUME NEW S \in SUBSET Slots, S # {}
  PROVE  Max(S) \in S
<1> DEFINE T == {ENTRIES_PER_SECTOR - 1 - i : i \in S}
<1>0. \A i \in S : i \in Nat /\ ENTRIES_PER_SECTOR - 1 - i \in Nat
  BY EntriesAssumption DEF Slots
<1>1. T \in SUBSET Nat /\ T # {}
  BY <1>0
<1>2. PICK t \in T : \A u \in T : t =< u
  BY <1>1, LeastNatural
<1>3. PICK x \in S : t = ENTRIES_PER_SECTOR - 1 - x
  BY <1>2
<1>4. \A y \in S : x >= y
  <2> TAKE y \in S
  <2>1. t =< ENTRIES_PER_SECTOR - 1 - y
    BY <1>2
  <2> QED BY <1>0, <1>3, <2>1, EntriesAssumption
<1> QED BY <1>4 DEF Max

\* Whatever the sector holds, the backward scan returns a well-formed entry.
LEMMA ReadType ==
  ASSUME NEW s
  PROVE  ReadLastEntry(s) \in FlashEntry
<1>1. CASE ValidSlots(s) = {}
  BY <1>1 DEF ReadLastEntry, DefaultEntry, FlashEntry, PowerState, RestoreMode
<1>2. CASE ValidSlots(s) # {}
  <2> DEFINE page == s[Max(ValidSlots(s))]
  <2>1. HoldsEntry(page)
    BY <1>2, MaxOfSlots DEF ValidSlots
  <2>2. FromByte(PowerState, page.power) \in PowerState
    BY <2>1 DEF HoldsEntry, IsValueOf, FromByte
  <2>3. FromByte(RestoreMode, page.mode) \in RestoreMode
    BY <2>1 DEF HoldsEntry, IsValueOf, FromByte
  <2> QED BY <1>2, <2>2, <2>3 DEF ReadLastEntry, EntryOf, FlashEntry
<1> QED BY <1>1, <1>2

\* ... and write_entry starts an operation on a page of the sector.
LEMMA BeginWriteType ==
  ASSUME TypeOK, BeginWrite
  PROVE  slot' \in Slots /\ phase' \in {"erase", "program"}
<1>1. FreeSlots(sector) # {} => FirstFree(sector) \in Slots
  BY MinOfSlots DEF FirstFree, FreeSlots
<1>2. FreeSlots(sector) = {} => FirstFree(sector) = ENTRIES_PER_SECTOR
  BY DEF FirstFree
<1>3. 0 \in Slots
  BY EntriesAssumption DEF Slots
<1> QED BY <1>1, <1>2, <1>3, EntriesAssumption DEF BeginWrite, Slots

-----------------------------------------------------------------------------
(* Type correctness                                                        *)

\* Every reachable state is well typed, torn operations included: the sector
\* holds pages of bytes and the firmware works with a well-formed entry.
THEOREM TypeCorrect == Spec => []TypeOK
<1>1. Init => TypeOK
  <2>1. DefaultEntry \in FlashEntry
    BY DEF FlashEntry, DefaultEntry, PowerState, RestoreMode
  <2>2. 0 \in Slots
    BY EntriesAssumption DEF Slots
  <2> QED BY <2>1, <2>2, BlankIsPage DEF Init, TypeOK
<1>2. ASSUME TypeOK, [Next]_vars
      PROVE  TypeOK'
  <2>1. CASE New
    BY <1>2, <2>1, ReadType DEF New, TypeOK
  <2>2. ASSUME NEW p \in PowerState, SetPowerState(p)
        PROVE  TypeOK'
    <3>1. [entry EXCEPT !.power = p] \in FlashEntry
      BY <1>2 DEF TypeOK, FlashEntry
    <3> QED BY <1>2, <2>2, <3>1, BeginWriteType DEF SetPowerState, SetEntry, TypeOK
  <2>3. ASSUME NEW m \in RestoreMode, SetRestoreMode(m)
        PROVE  TypeOK'
    <3>1. [entry EXCEPT !.mode = m] \in FlashEntry
      BY <1>2 DEF TypeOK, FlashEntry
    <3> QED BY <1>2, <2>3, <3>1, BeginWriteType DEF SetRestoreMode, SetEntry, TypeOK
  <2>4. CASE EraseSector
    BY <1>2, <2>4, BlankIsPage DEF EraseSector, TypeOK
  <2>5. CASE ProgramPage
    BY <1>2, <2>5 DEF ProgramPage, TypeOK, Page, Programmed, Byte
  <2>6. CASE PowerLoss
    <3>1. TornSectors \subseteq [Slots -> Page]
      BY <1>2 DEF TornSectors, TypeOK, TornProgram, Page, Byte
    <3> QED BY <1>2, <2>6, <3>1 DEF PowerLoss, TypeOK
  <2>7. CASE UNCHANGED vars
    BY <1>2, <2>7 DEF TypeOK, vars
  <2> QED BY <1>2, <2>1, <2>2, <2>3, <2>4, <2>5, <2>6, <2>7 DEF Next
<1> QED BY <1>1, <1>2, PTL DEF Spec

-----------------------------------------------------------------------------
(* The inductive invariant                                                 *)

\* A completed program extends the run of entries by the entry in RAM.
LEMMA ProgramExtendsRun ==
  ASSUME TypeOK, ProgramPage, Filled(sector, slot)
  PROVE  Filled(sector', slot + 1) /\ ReadLastEntry(sector') = entry
<1>1. slot \in Slots /\ entry \in FlashEntry /\ sector \in [Slots -> Page]
  BY DEF TypeOK
<1>2. /\ slot \in Nat
      /\ slot + 1 \in 0 .. ENTRIES_PER_SECTOR
      /\ slot + 1 # 0
      /\ (slot + 1) - 1 = slot
  BY <1>1, EntriesAssumption DEF Slots
<1>3. sector[slot] = BlankPage
  BY <1>1, <1>2 DEF Filled
<1>4. sector' = [sector EXCEPT ![slot] = PageFor(entry)]
  BY <1>1, <1>3, PageForHolds DEF ProgramPage
<1>5. \A i \in Slots : sector'[i] = IF i = slot THEN PageFor(entry) ELSE sector[i]
  BY <1>1, <1>4
<1>6. \A i \in Slots : i \in Nat /\ (i < slot + 1 <=> (i < slot \/ i = slot))
  BY <1>2 DEF Slots
<1>7. Filled(sector', slot + 1)
  BY <1>1, <1>2, <1>5, <1>6, PageForHolds DEF Filled
<1>8. ReadLastEntry(sector') = EntryOf(sector'[slot])
  BY <1>2, <1>7, ReadOfFilled
<1> QED BY <1>1, <1>5, <1>7, <1>8, PageForHolds

\* A write that begins on a run of entries goes to its end, or erases it.
LEMMA BeginWriteAtEnd ==
  ASSUME TypeOK, BeginWrite,
         NEW k \in 0 .. ENTRIES_PER_SECTOR, Filled(sector, k)
  PROVE  \/ phase' = "program" /\ slot' = k
         \/ phase' = "erase" /\ slot' = 0 /\ k = ENTRIES_PER_SECTOR
BY FreeOfFilled, EntriesAssumption DEF BeginWrite

LEMMA InvInit == Init => IInv
<1> SUFFICES ASSUME Init PROVE TypeOK /\ ShapeInv
  BY DEF IInv, Init
<1>1. TypeOK
  <2>1. DefaultEntry \in FlashEntry
    BY DEF FlashEntry, DefaultEntry, PowerState, RestoreMode
  <2>2. 0 \in Slots
    BY EntriesAssumption DEF Slots
  <2> QED BY <2>1, <2>2, BlankIsPage DEF Init, TypeOK
<1>2. Filled(sector, 0) /\ 0 \in 0 .. ENTRIES_PER_SECTOR
  BY EntriesAssumption DEF Init, Filled, Slots
<1> QED BY <1>1, <1>2 DEF Init, ShapeInv

LEMMA InvNext == TypeOK' /\ IInv /\ [Next]_vars => IInv'
<1>0. ASSUME IInv, [Next]_vars
      PROVE  (phase = "erase" => slot = 0)'
  BY <1>0 DEF IInv, Next, New, SetPowerState, SetRestoreMode, SetEntry, BeginWrite,
              EraseSector, ProgramPage, PowerLoss, vars
<1> SUFFICES ASSUME TypeOK', IInv, [Next]_vars, ~damaged' PROVE ShapeInv'
  BY <1>0 DEF IInv
<1>1. TypeOK
  BY DEF IInv
<1>2. CASE New
  <2>1. ShapeInv
    BY <1>2 DEF New, IInv
  <2> QED BY <1>2, <2>1 DEF New, ShapeInv, Durable
<1>3. ASSUME NEW e, SetEntry(e)
      PROVE  ShapeInv'
  <2>1. ShapeInv /\ phase = "idle" /\ sector' = sector /\ Durable' = Durable
    BY <1>3 DEF SetEntry, IInv, Durable
  <2>2. PICK k \in 0 .. ENTRIES_PER_SECTOR : Filled(sector, k)
    BY <2>1 DEF ShapeInv
  <2>3. CASE e = entry
    BY <1>3, <2>1, <2>3 DEF SetEntry, ShapeInv
  <2>4. CASE e # entry
    BY <1>1, <1>3, <2>1, <2>2, <2>4, BeginWriteAtEnd DEF SetEntry, ShapeInv
  <2> QED BY <2>3, <2>4
<1>4. CASE EraseSector
  <2>1. Filled(sector', 0) /\ 0 \in 0 .. ENTRIES_PER_SECTOR
    BY <1>4, EntriesAssumption DEF EraseSector, Filled, Slots
  <2>2. phase' = "program" /\ slot' = 0
    BY <1>4 DEF EraseSector, IInv
  <2> QED BY <2>1, <2>2 DEF ShapeInv
<1>5. CASE ProgramPage
  <2>1. Filled(sector, slot) /\ phase' = "idle" /\ entry' = entry
    BY <1>5 DEF ProgramPage, IInv, ShapeInv
  <2>2. slot + 1 \in 0 .. ENTRIES_PER_SECTOR
    BY <1>1, EntriesAssumption DEF TypeOK, Slots
  <2> QED BY <1>1, <1>5, <2>1, <2>2, ProgramExtendsRun DEF ShapeInv, Durable
<1>6. CASE PowerLoss
  <2>1. ShapeInv /\ sector' = sector /\ phase' = "off"
    BY <1>6 DEF PowerLoss, IInv
  <2> QED BY <2>1 DEF ShapeInv
<1>7. CASE UNCHANGED vars
  BY <1>7 DEF vars, IInv, ShapeInv, Durable
<1> QED BY <1>2, <1>3, <1>4, <1>5, <1>6, <1>7
        DEF Next, SetPowerState, SetRestoreMode

THEOREM Invariance == Spec => []IInv
<1>1. Init => IInv
  BY InvInit
<1>2. TypeOK' /\ IInv /\ [Next]_vars => IInv'
  BY InvNext
<1> QED BY <1>1, <1>2, TypeCorrect, PTL DEF Spec

-----------------------------------------------------------------------------
(* What follows from it                                                    *)

\* Even when power cuts tear flash operations, the settings in RAM are what the
\* next boot loads, from the first completed erase after the tear on.
THEOREM DurabilityHeals == Spec => []DurableUnlessDamaged
<1>1. IInv => DurableUnlessDamaged
  BY DEF IInv, ShapeInv, DurableUnlessDamaged, EntryIsDurable
<1> QED BY <1>1, Invariance, PTL

\* When flash operations are never torn, no operation is ever damaged.
LEMMA NeverDamaged ==
  ASSUME TornFlash = FALSE
  PROVE  Spec => []~damaged
<1>1. Init => ~damaged
  BY DEF Init
<1>2. ~damaged /\ [Next]_vars => ~damaged'
  BY DEF Next, New, SetPowerState, SetRestoreMode, SetEntry,
         EraseSector, ProgramPage, PowerLoss, vars
<1> QED BY <1>1, <1>2, PTL DEF Spec

\* Power cuts between flash operations never separate what the firmware works
\* with from what the next boot loads.
THEOREM Durability ==
  ASSUME TornFlash = FALSE
  PROVE  Spec => []EntryIsDurable
<1>1. IInv /\ ~damaged => EntryIsDurable
  BY DEF IInv, ShapeInv, EntryIsDurable
<1> QED BY <1>1, Invariance, NeverDamaged, PTL

\* ... never make write_entry program a page that is not blank,
THEOREM BlankPages ==
  ASSUME TornFlash = FALSE
  PROVE  Spec => []ProgramsBlankPage
<1>1. IInv /\ ~damaged => ProgramsBlankPage
  <2> SUFFICES ASSUME TypeOK, Filled(sector, slot)
               PROVE  sector[slot] = BlankPage
    BY DEF IInv, ShapeInv, ProgramsBlankPage
  <2>1. slot \in Slots /\ ~(slot < slot)
    BY EntriesAssumption DEF TypeOK, Slots
  <2> QED BY <2>1 DEF Filled
<1> QED BY <1>1, Invariance, NeverDamaged, PTL

\* ... and never make it erase a sector that still has room.
THEOREM FullErases ==
  ASSUME TornFlash = FALSE
  PROVE  Spec => []ErasesOnlyFullSector
<1>1. IInv /\ ~damaged => ErasesOnlyFullSector
  <2> SUFFICES ASSUME Filled(sector, ENTRIES_PER_SECTOR)
               PROVE  ValidSlots(sector) = Slots
    BY DEF IInv, ShapeInv, ErasesOnlyFullSector
  <2>1. \A i \in Slots : i < ENTRIES_PER_SECTOR
    BY EntriesAssumption DEF Slots
  <2> QED BY <2>1 DEF Filled, ValidSlots
<1> QED BY <1>1, Invariance, NeverDamaged, PTL

-----------------------------------------------------------------------------
(* The abstract settings value                                             *)

\* A sector is erased only on behalf of a change.
EraseForChange == phase = "erase" => Durable # entry

LEMMA EraseForChangeNext ==
  ASSUME IInv, ~damaged, EraseForChange, [Next]_vars
  PROVE  EraseForChange'
<1>1. ASSUME NEW e, SetEntry(e)
      PROVE  EraseForChange'
  <2>1. phase = "idle" /\ Durable = entry /\ entry' = e /\ Durable' = Durable
    BY <1>1 DEF SetEntry, IInv, ShapeInv, Durable
  <2>2. phase' = "erase" => e # entry
    BY <1>1, <2>1 DEF SetEntry
  <2> QED BY <2>1, <2>2 DEF EraseForChange
<1>2. CASE New \/ EraseSector \/ ProgramPage \/ PowerLoss
  BY <1>2 DEF New, EraseSector, ProgramPage, PowerLoss, EraseForChange
<1>3. CASE UNCHANGED vars
  BY <1>3 DEF vars, EraseForChange, Durable
<1> QED BY <1>1, <1>2, <1>3 DEF Next, SetPowerState, SetRestoreMode

LEMMA SettingsStep ==
  ASSUME IInv, ~damaged, ~damaged', EraseForChange, [Next]_vars
  PROVE  [Abstract!Next]_Abstract!vars
<1>1. TypeOK /\ ShapeInv /\ entry \in FlashEntry
  BY DEF IInv, TypeOK
<1>2. CASE New
  <2>1. Durable' = Durable /\ entry' = Durable /\ phase = "off" /\ phase' = "idle"
    BY <1>2 DEF New, Durable
  <2> QED BY <2>1 DEF Abstract!Next, Abstract!Boot
<1>3. ASSUME NEW e \in FlashEntry, SetEntry(e)
      PROVE  [Abstract!Next]_Abstract!vars
  <2>1. phase = "idle" /\ Durable = entry /\ entry' = e /\ Durable' = Durable
    BY <1>1, <1>3 DEF SetEntry, ShapeInv, Durable
  <2>2. phase' \in {"idle", "erase", "program"}
    BY <1>1, <1>3, <2>1, BeginWriteType DEF SetEntry
  <2> QED BY <1>3, <2>1, <2>2 DEF Abstract!Next, Abstract!Change
<1>4. CASE EraseSector
  <2>1. Filled(sector', 0) /\ 0 \in 0 .. ENTRIES_PER_SECTOR
    BY <1>4, EntriesAssumption DEF EraseSector, Filled, Slots
  <2>2. Durable' = DefaultEntry
    BY <2>1, ReadOfFilled DEF Durable
  <2>3. phase = "erase" /\ phase' = "program" /\ entry' = entry /\ Durable # entry
    BY <1>4 DEF EraseSector, EraseForChange
  <2> QED BY <2>2, <2>3 DEF Abstract!Next, Abstract!Wipe
<1>5. CASE ProgramPage
  <2>1. Filled(sector, slot) /\ phase = "program" /\ phase' = "idle" /\ entry' = entry
    BY <1>1, <1>5 DEF ProgramPage, ShapeInv
  <2>2. Durable' = entry
    BY <1>1, <1>5, <2>1, ProgramExtendsRun DEF Durable
  <2> QED BY <2>1, <2>2 DEF Abstract!Next, Abstract!Commit
<1>6. CASE PowerLoss
  <2>1. Durable' = Durable /\ entry' = entry /\ phase # "off" /\ phase' = "off"
    BY <1>6 DEF PowerLoss, Durable
  <2> QED BY <2>1 DEF Abstract!Next, Abstract!Crash
<1>7. CASE UNCHANGED vars
  BY <1>7 DEF vars, Abstract!vars, Durable
<1>8. /\ \A p \in PowerState : [entry EXCEPT !.power = p] \in FlashEntry
      /\ \A m \in RestoreMode : [entry EXCEPT !.mode = m] \in FlashEntry
  BY <1>1 DEF FlashEntry
<1> QED BY <1>2, <1>3, <1>4, <1>5, <1>6, <1>7, <1>8 DEF Next, SetPowerState, SetRestoreMode

\* With power cuts between flash operations the store is one durable value that a
\* commit replaces, or first wipes: for every sector size.
THEOREM StoreRefinement ==
  ASSUME TornFlash = FALSE
  PROVE  Spec => ImplementsDurableSettings
<1>1. Init => EraseForChange
  BY DEF Init, EraseForChange
<1>2. IInv /\ ~damaged /\ EraseForChange /\ [Next]_vars => EraseForChange'
  BY EraseForChangeNext
<1>3. Init => Abstract!Init
  <2> SUFFICES ASSUME Init PROVE Durable = DefaultEntry
    BY DEF Init, Abstract!Init
  <2>1. Filled(sector, 0) /\ 0 \in 0 .. ENTRIES_PER_SECTOR
    BY EntriesAssumption DEF Init, Filled, Slots
  <2> QED BY <2>1, ReadOfFilled DEF Durable
<1>4. IInv /\ ~damaged /\ ~damaged' /\ EraseForChange /\ [Next]_vars
        => [Abstract!Next]_Abstract!vars
  BY SettingsStep
<1> QED BY <1>1, <1>2, <1>3, <1>4, Invariance, NeverDamaged, PTL
        DEF Spec, ImplementsDurableSettings, Abstract!Spec
=============================================================================
