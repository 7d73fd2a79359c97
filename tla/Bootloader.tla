----------------------------- MODULE Bootloader -----------------------------
(***************************************************************************)
(* The two firmware slots and the bootloader that exchanges them:          *)
(* bootloader/src/main.rs, with the embassy-boot 0.7 swap it calls.        *)
(*                                                                         *)
(* ACTIVE has N pages, DFU one more.  The swap moves every page in two     *)
(* copies, each recorded in the state partition once it is complete, so    *)
(* that the next boot resumes after the last recorded one.  A boot that    *)
(* finds the swap complete and not confirmed reverts it the same way.      *)
(* A copy is an erase and a write; between them the page reads as garbage. *)
(* Every flash operation is an action, so that power may fail between any  *)
(* two of them.                                                            *)
(***************************************************************************)
EXTENDS Integers

CONSTANTS
  N,       \* pages of the ACTIVE partition: 64 in the firmware
  Images,  \* the firmware images around
  Size,    \* the pages each image fills
  NoImage  \* no image: erased, half-written or foreign contents

ASSUME NAssumption == N \in Nat \ {0}
ASSUME SizeAssumption == Size \in [Images -> 1 .. N]
ASSUME NoImageAssumption == NoImage \notin Images

VARIABLES
  active,    \* the ACTIVE partition, page by page
  dfu,       \* the DFU partition
  magic,     \* the magic word of the state partition
  pvalid,    \* its second word is still erased: the progress counts
  progress,  \* how many page copies are recorded after it
  pc,        \* what the processor is executing
  goal       \* the magic word being stored while pc is in StoringMagic

bootVars == <<active, dfu, magic, pvalid, progress, pc, goal>>

-----------------------------------------------------------------------------

Part == 0 .. N - 1

\* A page holds some part of some image, or garbage.
Page == [image : Images, part : Part] \cup [image : {NoImage}, part : {0}]
Garbage == [image |-> NoImage, part |-> 0]
PartOf(img, i) == [image |-> img, part |-> i]

\* The image a boot of these pages would run; the pages behind it do not matter.
Intact(img, pages) == \A i \in 0 .. Size[img] - 1 : pages[i] = PartOf(img, i)

\* State::from: an erased or unknown magic word means Boot.
GetState == IF magic = "Erased" THEN "Boot" ELSE magic

\* The two loops of a swap, the two of a revert after them.
Swapped == 2 * N
Reverted == 4 * N

RecordedProgress == progress  \* mutant of CurrentProgress: counts invalidated marks

\* An invalidated progress reads as the largest one.
CurrentProgress == IF pvalid THEN progress ELSE Reverted

Copying == {"erase", "write", "record"}
StoringMagic == {"invalidate", "clear", "magic"}

-----------------------------------------------------------------------------
(* Storing a magic word, by the bootloader and by the firmware             *)

StoreMagic(m) == pc' = "invalidate" /\ goal' = m

\* The progress is invalidated before the sector that holds it is erased.
Invalidate ==
  /\ pc = "invalidate"
  /\ pvalid' = FALSE
  /\ pc' = "clear"
  /\ UNCHANGED <<active, dfu, magic, progress, goal>>

ClearState ==
  /\ pc = "clear"
  /\ magic' = "Erased" /\ pvalid' = TRUE /\ progress' = 0
  /\ pc' = "magic"
  /\ UNCHANGED <<active, dfu, goal>>

\* The word is one byte: a cut comes before or after its program, not within.
\* After it is stored the bootloader jumps to ACTIVE, the main loop goes
\* on, and the updater resets the chip.
WriteMagic ==
  /\ pc = "magic"
  /\ magic' = goal
  /\ pc' = IF goal = "Swap" THEN "reset" ELSE "app"
  /\ goal' = "Boot"
  /\ UNCHANGED <<active, dfu, pvalid, progress>>

-----------------------------------------------------------------------------
(* The bootloader                                                          *)

\* BootLoader::prepare decides from the state partition alone.
Prepare ==
  /\ pc = "reset"
  /\ IF GetState # "Swap" THEN pc' = "app" /\ UNCHANGED goal
     ELSE IF CurrentProgress < Reverted THEN pc' = "erase" /\ UNCHANGED goal
     ELSE StoreMagic("Revert")
  /\ UNCHANGED <<active, dfu, magic, pvalid, progress>>

\* The erase of a page, then the write of its new contents.
Put(pages, i, contents) ==
  [pages EXCEPT ![i] = IF pc = "erase" THEN Garbage ELSE contents]
ToDfu(i, j) == dfu' = Put(dfu, j, active[i]) /\ UNCHANGED active
ToActive(j, i) == active' = Put(active, i, dfu[j]) /\ UNCHANGED dfu

\* The swap goes through the pages from the last to the first, moving each old
\* page one place up in DFU and then the new page in; the revert, forwards.
CopyPage ==
  /\ pc \in {"erase", "write"}
  /\ \E i \in Part :
       \/ progress = 2 * (N - 1 - i) /\ ToDfu(i, i + 1)
       \/ progress = 2 * (N - 1 - i) + 1 /\ ToActive(i, i)
       \/ progress = Swapped + 2 * i /\ ToDfu(i, i)
       \/ progress = Swapped + 2 * i + 1 /\ ToActive(i + 1, i)
  /\ pc' = IF pc = "erase" THEN "write" ELSE "record"
  /\ UNCHANGED <<magic, pvalid, progress, goal>>

\* The last copy of a swap is followed by the jump into the new firmware, the
\* last one of a revert by the end of the Swap state.
RecordProgress ==
  /\ pc = "record"
  /\ progress' = progress + 1
  /\ CASE progress' = Swapped  -> pc' = "app" /\ UNCHANGED goal
       [] progress' = Reverted -> StoreMagic("Revert")
       [] OTHER                -> pc' = "erase" /\ UNCHANGED goal
  /\ UNCHANGED <<active, dfu, magic, pvalid>>

BootStep == Prepare \/ CopyPage \/ RecordProgress
StateStep == Invalidate \/ ClearState \/ WriteMagic
=============================================================================
