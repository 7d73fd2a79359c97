------------------------------ MODULE NorFlash ------------------------------
(***************************************************************************)
(* The NOR flash cells every driver of this firmware works on.  A byte is  *)
(* the set of its bit positions that read 1.  Erasing sets every bit;      *)
(* programming can only clear bits, so programming a byte leaves the bits  *)
(* that are 1 both in the cell and in the data ("re-programming unchanged  *)
(* bytes is a no-op at the NOR level", src/direct_flash.rs:155).           *)
(* A program or an erase that loses power half way has moved some of the   *)
(* bits it was to move and not the others.                                 *)
(***************************************************************************)

CONSTANT Bits  \* the bit positions of a byte; 0..7 in the firmware

Byte == SUBSET Bits

\* INVALID_BYTE, 0xFF: what an erased cell reads.
Erased == Bits

\* What the cell holds after flash_range_program of `data` over `old`.
Programmed(old, data) == old \cap data

\* What it may hold when power fails during that program.
TornProgram(old, data) == {b \in SUBSET old : Programmed(old, data) \subseteq b}

\* What it may hold when power fails during a sector erase.
TornErase(old) == {b \in Byte : old \subseteq b}
=============================================================================
